---- MODULE Spec2Model ----
(***************************************************************************)
(* State-machine model of the ZFS-to-Borg backup tooling:                  *)
(*   zfs_manager.py     ZFSManager (existence probes, create/destroy       *)
(*                      snapshot, dataset enumeration)                     *)
(*   borg_backup_manager.py  BorgBackupRepoManager (initialize_if_needed,  *)
(*                      create_archive, prune_archives, check_repository)  *)
(*   backup_manager.py  BackupOrchestrator.backup_all and its helpers      *)
(*                                                                         *)
(* Strings are modelled as tuples of tokens, so that concatenation         *)
(* (f-strings) is \o and str.replace is a map over the tokens.             *)
(* Every wrapped external command is one step; its exit status is drawn    *)
(* from the outcomes the tool can produce.  `calls' records the method     *)
(* invocations and the commands handed to the `sh' library, in order.      *)
(***************************************************************************)
EXTENDS Integers, Sequences, FiniteSets, TLC

VARIABLES
    filesystems,      \* storage layer: names of the existing ZFS filesystems
    snaps,            \* storage layer: full names of the existing snapshots
    listing,          \* storage layer: output lines of `zfs list -o name,mountpoint'
    repos,            \* archive store: paths of the initialised repositories
    archives,         \* archive store: set of <<repository path, archive name>>
    services,         \* docker: "running", "stopped" or "partial"
    calls,            \* trace of method invocations and issued commands
    zpc,              \* ZFSManager method in progress: position
    zop,              \* ZFSManager method in progress: name and arguments
    zres,             \* ZFSManager method in progress: exception raised (NoExc: none)
    snaps0,           \* snapshots that existed when the ZFSManager method was entered
    prev,             \* the ZFSManager call completed just before the current one
    pc,               \* BackupOrchestrator.backup_all: position
    snapshot_tag,     \* BackupOrchestrator.snapshot_tag
    snapshot_created, \* backup_all: local flag
    exc,              \* backup_all: exception caught by / raised from the handler
    datasets,         \* _orchestrate_dataset_backups: list(get_datasets())
    idx,              \* _orchestrate_dataset_backups: loop index (1-based)
    reported,         \* handler logged "snapshot ... has been LEFT"
    keyfile,          \* file system: what lies at the recovery key destination
    bpc,              \* BorgBackupRepoManager method in progress: position
    bop,              \* BorgBackupRepoManager method in progress: name and repo_path
    bres,             \* BorgBackupRepoManager method in progress: exception raised
    repos0,           \* repositories that existed when the method was entered
    bprev,            \* the BorgBackupRepoManager call completed just before
    entry,            \* the script started as a process ("none": no main in play)
    environ,          \* os.environ after load_dotenv: variable -> "unset", "empty", "set"
    exit_status,      \* exit status of the process (-1: still running)
    borg_env,         \* BorgBackupRepoManager.borg_env["BORG_RSH"] of the instance
    mountstate,       \* storage layer: mount state of each listed filesystem
    now,              \* wall clock, as read by datetime.now()
    base_env,         \* Config.base_borg_env, the dictionary shared by the managers
    managers,         \* BorgBackupRepoManager instances built: repo_path, borg_env
    success_count,    \* export_all_keys: local success_count
    fail_count        \* export_all_keys: local fail_count

vars == <<filesystems, snaps, listing, repos, archives, services, calls,
          zpc, zop, zres, snaps0, prev,
          pc, snapshot_tag, snapshot_created, exc, datasets, idx, reported,
          keyfile, bpc, bop, bres, repos0, bprev,
          entry, environ, exit_status, borg_env, mountstate, now,
          base_env, managers, success_count, fail_count>>

envVars  == <<filesystems, listing, repos, archives, services>>
zfsVars  == <<zpc, zop, zres, snaps0>>
pipeVars == <<pc, snapshot_tag, snapshot_created, exc, datasets, idx, reported>>
borgVars == <<keyfile, bpc, bop, bres, repos0, bprev>>
procVars == <<entry, environ, exit_status, borg_env, mountstate, now,
              base_env, managers, success_count, fail_count>>

----------------------------------------------------------------------------
(* Bounds *)

\* number of child volumes under the parent namespace in a backup run
MaxVols == 3
\* number of child volumes addressable as a snapshot scope in the ZFSManager runs
MaxScopeVols == 1
\* number of repositories addressed by the BorgBackupRepoManager runs
MaxRepos == 1
\* length, in tokens, of a volume name below the parent namespace
MaxNameLen == 3

----------------------------------------------------------------------------
(* Names *)

VolTokens == <<"a", "b", "c", "d", "e">>

parent_dataset == <<"pool", "/", "svcs">>

ChildDataset(k) == parent_dataset \o <<"/", VolTokens[k]>>

Tags == {<<"auto-backup_T">>, <<"manual">>}

\* zfs_manager.py: target_dataset = f"{parent}/{dataset_name}" if dataset_name else parent
TargetDataset(dataset_name) ==
    IF dataset_name # << >> THEN parent_dataset \o <<"/">> \o dataset_name
    ELSE parent_dataset

\* zfs_manager.py: full_snapshot_name = f"{target_dataset}@{tag}"
FullSnapshotName(target_dataset, tag) == target_dataset \o <<"@">> \o tag

----------------------------------------------------------------------------
(* Exceptions and trace entries *)

NoExc == [type |-> "none", src |-> "none"]

\* sh.ErrorReturnCode raised by the command `src'
ErrorReturnCode(src) == [type |-> "ErrorReturnCode", src |-> src]

FileExistsError == [type |-> "FileExistsError", src |-> "create_snapshot"]

\* RuntimeError raised by the method `src' itself
RuntimeError(src) == [type |-> "RuntimeError", src |-> src]

\* a method invocation (code is unused)
Call(name, arg) == [ev |-> "call", name |-> name, arg |-> arg, code |-> 0]

\* a command handed to the sh library, with the exit status it came back with
Cmd(name, arg, code) == [ev |-> "cmd", name |-> name, arg |-> arg, code |-> code]

\* positions of the trace entries with the given kind and name
Positions(log, ev, name) ==
    {k \in 1..Len(log) : log[k].ev = ev /\ log[k].name = name}

Count(log, ev, name) == Cardinality(Positions(log, ev, name))

----------------------------------------------------------------------------
(* The storage tool, as seen through its exit status *)

\* filesystems the command acts on: the target, and with -r its descendants
Descendants(fs, target_dataset) ==
    {f \in fs : \/ f = target_dataset
                \/ /\ Len(f) > Len(target_dataset)
                   /\ SubSeq(f, 1, Len(target_dataset) + 1) = target_dataset \o <<"/">>}

SnapTargets(fs, target_dataset, tag, recursive) ==
    {FullSnapshotName(f, tag) :
        f \in IF recursive THEN Descendants(fs, target_dataset)
              ELSE {target_dataset} \cap fs}

\* exit status of `zfs list -H -t snapshot <name>': 0 found, 1 not found,
\* 2 any other fault (may happen at any time)
ZfsListExitCodes(existing, name) ==
    {IF name \in existing THEN 0 ELSE 1, 2}

\* outcomes of `zfs snapshot [-r] <name>': [code, snaps afterwards].
\* The snapshot is taken atomically when no target exists yet; the command
\* may also fail, or report success without the state having changed.
ZfsSnapshotOutcomes(fs, existing, target_dataset, tag, recursive) ==
    LET targets == SnapTargets(fs, target_dataset, tag, recursive) IN
    {[code |-> 1, snaps |-> existing], [code |-> 0, snaps |-> existing]}
    \cup (IF target_dataset \in fs /\ targets \cap existing = {}
          THEN {[code |-> 0, snaps |-> existing \cup targets]} ELSE {})

\* outcomes of `zfs destroy [-r] <name>'
ZfsDestroyOutcomes(fs, existing, target_dataset, tag, recursive) ==
    LET targets == SnapTargets(fs, target_dataset, tag, recursive) IN
    {[code |-> 1, snaps |-> existing], [code |-> 0, snaps |-> existing]}
    \cup (IF targets \cap existing # {}
          THEN {[code |-> 0, snaps |-> existing \ targets]} ELSE {})

\* outcomes of `zfs create [-p] <name>': [code, filesystems afterwards]
ZfsCreateOutcomes(fs, target_dataset) ==
    {[code |-> 1, fs |-> fs], [code |-> 0, fs |-> fs]}
    \cup (IF target_dataset \notin fs
          THEN {[code |-> 0, fs |-> fs \cup {target_dataset}]} ELSE {})

----------------------------------------------------------------------------
(* ZFSManager *)

\* mutant: every non-zero exit status means "not found"
dataset_exists_nonzero_false(exit_code) ==
    IF exit_code = 0 THEN "True" ELSE "False"

\* ZFSManager.dataset_exists: exit 0 -> True, exit 1 -> False, else re-raise
dataset_exists(exit_code) ==
    IF exit_code = 0 THEN "True"
    ELSE IF exit_code = 1 THEN "False"
    ELSE "raise"

\* mutant: the dataset is created whatever the probe answered
create_dataset_precheck_nocheck(probe) ==
    IF probe = "raise"
    THEN [pc |-> "return", res |-> ErrorReturnCode("zfs list")]
    ELSE [pc |-> "command", res |-> NoExc]

\* create_dataset, lines 200-204: return if the dataset exists
create_dataset_precheck(probe) ==
    IF probe = "raise"
    THEN [pc |-> "return", res |-> ErrorReturnCode("zfs list")]
    ELSE IF probe = "True"
    THEN [pc |-> "return", res |-> NoExc]
    ELSE [pc |-> "command", res |-> NoExc]

\* mutant: the exit status of `zfs create' is taken as proof
create_dataset_verify_trusting(probe) ==
    IF probe = "raise" THEN ErrorReturnCode("zfs list") ELSE NoExc

\* create_dataset, lines 215-218: RuntimeError if the dataset is not found
create_dataset_verify(probe) ==
    IF probe = "raise" THEN ErrorReturnCode("zfs list")
    ELSE IF probe = "True" THEN NoExc
    ELSE RuntimeError("create_dataset")

\* ZFSManager._snapshot_exists: exit 0 -> True, exit 1 -> False, else re-raise
_snapshot_exists(exit_code) ==
    IF exit_code = 0 THEN "True"
    ELSE IF exit_code = 1 THEN "False"
    ELSE "raise"

\* ZFSManager._execute_command: a non-zero exit re-raises sh.ErrorReturnCode
_execute_command(exit_code, src) ==
    IF exit_code = 0 THEN NoExc ELSE ErrorReturnCode(src)

\* mutant: the AlreadyExists pre-check is missing
create_snapshot_precheck_nocheck(probe) ==
    IF probe = "raise"
    THEN [pc |-> "return", res |-> ErrorReturnCode("zfs list")]
    ELSE [pc |-> "command", res |-> NoExc]

\* create_snapshot, lines 244-245: raise FileExistsError if the snapshot exists
create_snapshot_precheck(probe) ==
    IF probe = "raise"
    THEN [pc |-> "return", res |-> ErrorReturnCode("zfs list")]
    ELSE IF probe = "True"
    THEN [pc |-> "return", res |-> FileExistsError]
    ELSE [pc |-> "command", res |-> NoExc]

\* create_snapshot, lines 256-259: RuntimeError if the snapshot is not found
create_snapshot_verify(probe) ==
    IF probe = "raise" THEN ErrorReturnCode("zfs list")
    ELSE IF probe = "True" THEN NoExc
    ELSE RuntimeError("create_snapshot")

\* mutant: the idempotency pre-check is missing
destroy_snapshot_precheck_nocheck(probe) ==
    IF probe = "raise"
    THEN [pc |-> "return", res |-> ErrorReturnCode("zfs list")]
    ELSE [pc |-> "command", res |-> NoExc]

\* destroy_snapshot, lines 280-284: return if the snapshot does not exist
destroy_snapshot_precheck(probe) ==
    IF probe = "raise"
    THEN [pc |-> "return", res |-> ErrorReturnCode("zfs list")]
    ELSE IF probe = "False"
    THEN [pc |-> "return", res |-> NoExc]
    ELSE [pc |-> "command", res |-> NoExc]

\* destroy_snapshot, lines 295-298: RuntimeError if the snapshot still exists
destroy_snapshot_verify(probe) ==
    IF probe = "raise" THEN ErrorReturnCode("zfs list")
    ELSE IF probe = "False" THEN NoExc
    ELSE RuntimeError("destroy_snapshot")

NoOp == [op |-> "none", tag |-> << >>, dataset_name |-> << >>, recursive |-> FALSE]

\* the name the method probes: full_snapshot_name, or full_dataset_name
ZName ==
    IF zop.op = "create_dataset" THEN TargetDataset(zop.dataset_name)
    ELSE FullSnapshotName(TargetDataset(zop.dataset_name), zop.tag)

\* the probe command of the method in progress and the exit statuses it can
\* come back with
ZProbeName == IF zop.op = "create_dataset" THEN "zfs list fs" ELSE "zfs list"

ZProbeCodes ==
    IF zop.op = "create_dataset" THEN ZfsListExitCodes(filesystems, ZName)
    ELSE ZfsListExitCodes(snaps, ZName)

\* entry of create_dataset / create_snapshot / destroy_snapshot (the caller
\* sets the frame; `recursive' holds create_parents for create_dataset)
ZfsEnter(op, tag, dataset_name, recursive) ==
    /\ zop' = [op |-> op, tag |-> tag, dataset_name |-> dataset_name,
               recursive |-> recursive]
    /\ zpc' = "precheck"
    /\ zres' = NoExc
    /\ snaps0' = snaps

\* the pre-check probe of create_dataset (200), create_snapshot (244) and
\* destroy_snapshot (280)
ZfsPrecheck ==
    /\ zpc = "precheck"
    /\ \E code \in ZProbeCodes :
         LET nxt == IF zop.op = "create_snapshot"
                    THEN create_snapshot_precheck(_snapshot_exists(code))
                    ELSE IF zop.op = "destroy_snapshot"
                    THEN destroy_snapshot_precheck(_snapshot_exists(code))
                    ELSE create_dataset_precheck(dataset_exists(code))
         IN /\ zpc' = nxt.pc
            /\ zres' = nxt.res
            /\ calls' = Append(calls, Cmd(ZProbeName, ZName, code))
    /\ UNCHANGED <<envVars, snaps, zop, snaps0, prev, pipeVars, borgVars,
                   procVars>>

\* the mutating command: `zfs create' (211), `zfs snapshot' (252) or
\* `zfs destroy' (291)
ZfsCommand ==
    /\ zpc = "command"
    /\ LET target == TargetDataset(zop.dataset_name)
           name == IF zop.op = "create_snapshot" THEN "zfs snapshot"
                   ELSE IF zop.op = "destroy_snapshot" THEN "zfs destroy"
                   ELSE "zfs create"
           outs == IF zop.op = "create_snapshot"
                   THEN {[code |-> o.code, snaps |-> o.snaps, fs |-> filesystems] :
                           o \in ZfsSnapshotOutcomes(filesystems, snaps, target,
                                                     zop.tag, zop.recursive)}
                   ELSE IF zop.op = "destroy_snapshot"
                   THEN {[code |-> o.code, snaps |-> o.snaps, fs |-> filesystems] :
                           o \in ZfsDestroyOutcomes(filesystems, snaps, target,
                                                    zop.tag, zop.recursive)}
                   ELSE {[code |-> o.code, snaps |-> snaps, fs |-> o.fs] :
                           o \in ZfsCreateOutcomes(filesystems, target)}
       IN \E o \in outs :
            /\ snaps' = o.snaps
            /\ filesystems' = o.fs
            /\ zres' = _execute_command(o.code, name)
            /\ zpc' = IF zres' = NoExc THEN "verify" ELSE "return"
            /\ calls' = Append(calls, Cmd(name, ZName, o.code))
    /\ UNCHANGED <<listing, repos, archives, services, zop, snaps0, prev, pipeVars,
                   borgVars, procVars>>

\* the verification probe of create_dataset (215), create_snapshot (256)
\* and destroy_snapshot (295)
ZfsVerify ==
    /\ zpc = "verify"
    /\ \E code \in ZProbeCodes :
         /\ zres' = IF zop.op = "create_snapshot"
                    THEN create_snapshot_verify(_snapshot_exists(code))
                    ELSE IF zop.op = "destroy_snapshot"
                    THEN destroy_snapshot_verify(_snapshot_exists(code))
                    ELSE create_dataset_verify(dataset_exists(code))
         /\ calls' = Append(calls, Cmd(ZProbeName, ZName, code))
    /\ zpc' = "return"
    /\ UNCHANGED <<envVars, snaps, zop, snaps0, prev, pipeVars, borgVars,
                   procVars>>

----------------------------------------------------------------------------
(* ZFSManager driven from the command line: a sequence of create-snapshot *)
(* and destroy-snapshot invocations (zfs_manager.py main, lines 463-471)  *)

ScopeNames == {<< >>} \cup {<<VolTokens[k]>> : k \in 1..MaxScopeVols}

NoPrev == [zop |-> NoOp, res |-> NoExc, calls |-> << >>, snaps0 |-> {}]

PipelineOff ==
    /\ pc = "off"
    /\ snapshot_tag = << >>
    /\ snapshot_created = FALSE
    /\ exc = NoExc
    /\ datasets = << >>
    /\ idx = 0
    /\ reported = FALSE

NoBop == [op |-> "none", repo_path |-> << >>, source_path |-> << >>]

NoBPrev == [bop |-> NoBop, res |-> NoExc, calls |-> << >>, repos0 |-> {}]

\* no BorgBackupRepoManager method is in progress or has run
BorgOff ==
    /\ keyfile = "absent"
    /\ bpc = "idle"
    /\ bop = NoBop
    /\ bres = NoExc
    /\ repos0 = {}
    /\ bprev = NoBPrev

\* variables the backup run requires (backup_manager.py, lines 84-93)
BackupRequired ==
    {"BORG_REPO_BASE_PATH", "BORG_PASSPHRASE", "BORG_RSH", "ZFS_PARENT_DATASET",
     "ARCHIVE_PREFIX", "BORG_PRUNE_POLICY", "BORG_COMPRESSION", "BORG_EXCLUDES_FILE"}

\* variables the master orchestrator requires (orchestrator.py, lines 79-90;
\* the attributes are the lower-cased variable names)
MasterRequired ==
    {"PYTHON_DIR", "ZFS_PARENT_DATASET", "ZFS_BASE_MOUNTPOINT", "BORG_REPO_BASE_PATH",
     "BORG_PASSPHRASE", "BORG_RSH", "BORG_COMPRESSION", "BORG_EXCLUDES_FILE",
     "BORG_KEYS_DIR", "ADMIN_USER"}

\* variables the constructors of the managers read: DockerComposeManager
\* (docker_manager.py, lines 71-74) and StorageManager (storage_manager.py,
\* lines 76-87)
DockerRequired == {"SERVICES_DIR"}

StorageRequired ==
    {"SERVICE_VOLUME_PATHS_AND_OWNERS", "REMAPPED_ROOT_UID", "REMAPPED_POSTGRES_UID",
     "REMAPPED_APP_UID"}

EnvNames == BackupRequired \cup MasterRequired \cup DockerRequired \cup StorageRequired

\* every variable has a value
FullEnviron == [v \in EnvNames |-> "set"]

\* BORG_RSH of a freshly built manager
DefaultRsh == <<"ssh ", "-i key">>

\* reading of the clock during the runs that do not follow it
DefaultNow == 2

\* no process entry point, instance environment, mount table or moving
\* clock is in play
\* no manager built outside the pipeline, export_all_keys not running
ManagersOff ==
    /\ base_env = << >>
    /\ managers = << >>
    /\ success_count = 0
    /\ fail_count = 0

ProcOff ==
    /\ entry = "none"
    /\ environ = FullEnviron
    /\ exit_status = -1
    /\ borg_env = DefaultRsh
    /\ mountstate = << >>
    /\ now = DefaultNow
    /\ ManagersOff

InitZfs ==
    /\ filesystems = {parent_dataset} \cup {ChildDataset(k) : k \in 1..MaxScopeVols}
    /\ snaps = {}
    /\ listing = << >>
    /\ repos = {}
    /\ archives = {}
    /\ services = "running"
    /\ calls = << >>
    /\ zpc = "idle"
    /\ zop = NoOp
    /\ zres = NoExc
    /\ snaps0 = {}
    /\ prev = NoPrev
    /\ PipelineOff
    /\ BorgOff
    /\ ProcOff

\* the dataset names create-dataset is invoked with: the existing children
\* and one that does not exist yet
NewNames == {<<VolTokens[k]>> : k \in 1..(MaxScopeVols + 1)}

\* main: manager.create_dataset(...) / manager.create_snapshot(...) /
\* manager.destroy_snapshot(...)
ZfsInvoke ==
    /\ zpc = "idle"
    /\ pc = "off"
    /\ \/ \E op \in {"create_snapshot", "destroy_snapshot"}, tag \in Tags,
             dataset_name \in ScopeNames, recursive \in BOOLEAN :
            /\ ZfsEnter(op, tag, dataset_name, recursive)
            /\ calls' = <<Call(op, FullSnapshotName(TargetDataset(dataset_name), tag))>>
       \/ \E dataset_name \in NewNames :
            /\ ZfsEnter("create_dataset", << >>, dataset_name, TRUE)
            /\ calls' = <<Call("create_dataset", TargetDataset(dataset_name))>>
    /\ UNCHANGED <<envVars, snaps, prev, pipeVars, borgVars, procVars>>

\* the method returns or raises to main
ZfsFinish ==
    /\ zpc = "return"
    /\ pc = "off"
    /\ zpc' = "idle"
    /\ prev' = [zop |-> zop, res |-> zres, calls |-> calls, snaps0 |-> snaps0]
    /\ UNCHANGED <<envVars, snaps, calls, zop, zres, snaps0, pipeVars, borgVars,
                   procVars>>

NextZfs == ZfsInvoke \/ ZfsPrecheck \/ ZfsCommand \/ ZfsVerify \/ ZfsFinish

SpecZfs == InitZfs /\ [][NextZfs]_vars

----------------------------------------------------------------------------
(* Configuration of a backup run (backup_manager.py Config) *)

repo_base_path == <<"/", "repos">>

archive_prefix == <<"homelab">>

MountPoint(k) == <<"/", "mnt", "/", VolTokens[k]>>

\* where the parent dataset itself is mounted
zfs_base_mountpoint == <<"/", "mnt">>

\* readings of the wall clock that are told apart
MaxClock == 3

\* datetime.now().strftime("%Y-%m-%d_%H-%M-%S") at each reading of the clock:
\* naive local time, to the second
TimeStamps == <<"T1", "T2", "T3", "T4", "T5">>

\* f"auto-backup_{timestamp}" at each reading of the clock
TagStamps == <<"auto-backup_S", "auto-backup_T", "auto-backup_U", "auto-backup_V",
               "auto-backup_W">>

\* _generate_snapshot_tag, lines 128-131
_generate_snapshot_tag(t) == <<TagStamps[t]>>

\* the tags a run can generate
ClockTags == {_generate_snapshot_tag(t) : t \in 1..MaxClock}

\* _generate_snapshot_tag: f"auto-backup_{timestamp}", fixed at construction
RunTag == <<"auto-backup_T">>

\* datetime.now() as read by _build_archive_name
ArchiveTimestamp == <<TimeStamps[now]>>

----------------------------------------------------------------------------
(* The archive tool and the service controller, as seen through exit status *)

\* exit status of `borg info': 0 repository found, 2 repository not found,
\* 1 any other fault
BorgInfoExitCodes(existing, repo_path) ==
    {IF repo_path \in existing THEN 0 ELSE 2, 1}

\* outcomes of `borg init': [code, repos afterwards]
BorgInitOutcomes(existing, repo_path) ==
    {[code |-> 2, repos |-> existing], [code |-> 0, repos |-> existing]}
    \cup (IF repo_path \notin existing
          THEN {[code |-> 0, repos |-> existing \cup {repo_path}]} ELSE {})

\* the directory <mount>/.zfs/snapshot/<tag> exists iff the volume mounted
\* there holds a snapshot with that tag
SourceExists(existing, source_path) ==
    \/ \E k \in 1..MaxVols, t \in Tags \cup ClockTags :
         /\ source_path = MountPoint(k) \o <<"/", ".zfs", "/", "snapshot", "/">> \o t
         /\ FullSnapshotName(ChildDataset(k), t) \in existing
    \/ \E t \in Tags \cup ClockTags :
         /\ source_path
              = zfs_base_mountpoint \o <<"/", ".zfs", "/", "snapshot", "/">> \o t
         /\ FullSnapshotName(parent_dataset, t) \in existing

\* outcomes of `borg create ::<name> <source>': [code, archives afterwards]
BorgCreateOutcomes(existingRepos, existingSnaps, stored, repo_path, archive_name, source_path) ==
    {[code |-> 2, archives |-> stored]}
    \cup (IF /\ repo_path \in existingRepos
             /\ SourceExists(existingSnaps, source_path)
             /\ <<repo_path, archive_name>> \notin stored
          THEN {[code |-> 0, archives |-> stored \cup {<<repo_path, archive_name>>}]}
          ELSE {})

\* exit status of `borg prune', `borg check', `docker compose stop/up'
PlainExitCodes == {0, 1}

----------------------------------------------------------------------------
(* BorgBackupRepoManager *)

\* mutant: every non-zero exit status means "not found"
_repository_exists_nonzero_false(exit_code) ==
    IF exit_code = 0 THEN "True" ELSE "False"

\* _repository_exists: exit 0 -> True, exit 2 -> False, else re-raise
_repository_exists(exit_code) ==
    IF exit_code = 0 THEN "True"
    ELSE IF exit_code = 2 THEN "False"
    ELSE "raise"

\* mutant: the error of the command is replaced by an error of the wrapper
borg_execute_command_wrapped(exit_code, src) ==
    IF exit_code = 0 THEN NoExc ELSE RuntimeError("_execute_command")

\* BorgBackupRepoManager._execute_command: a non-zero exit re-raises
borg_execute_command(exit_code, src) ==
    IF exit_code = 0 THEN NoExc ELSE ErrorReturnCode(src)

\* mutant: the repository is initialised whatever the probe answered
initialize_if_needed_precheck_nocheck(probe) ==
    IF probe = "raise"
    THEN [pc |-> "fail", res |-> ErrorReturnCode("borg info")]
    ELSE [pc |-> "init_cmd", res |-> NoExc]

\* initialize_if_needed, lines 144-153: return if the repository exists
initialize_if_needed_precheck(probe) ==
    IF probe = "raise"
    THEN [pc |-> "fail", res |-> ErrorReturnCode("borg info")]
    ELSE IF probe = "True"
    THEN [pc |-> "create", res |-> NoExc]
    ELSE [pc |-> "init_cmd", res |-> NoExc]

\* mutant: the exit status of `borg init' is taken as proof
initialize_if_needed_verify_trusting(probe) ==
    IF probe = "raise" THEN ErrorReturnCode("borg info") ELSE NoExc

\* initialize_if_needed, lines 164-168: RuntimeError if still not found
initialize_if_needed_verify(probe) ==
    IF probe = "raise" THEN ErrorReturnCode("borg info")
    ELSE IF probe = "True" THEN NoExc
    ELSE RuntimeError("initialize_if_needed")

----------------------------------------------------------------------------
(* ZFSManager.get_datasets *)

\* one ZFSDataset per line with two tab-separated fields whose mount point
\* is not "-" (lines 322-332)
RECURSIVE get_datasets(_)
get_datasets(lines) ==
    IF lines = << >> THEN << >>
    ELSE LET fields == Head(lines)
             rest == get_datasets(Tail(lines))
         IN IF Len(fields) # 2 THEN rest
            ELSE IF fields[2] = <<"-">> THEN rest
            ELSE <<[name |-> fields[1], mount_point |-> fields[2]]>> \o rest

----------------------------------------------------------------------------
(* BackupOrchestrator helpers *)

\* str.replace(old, new) over the tokens of s
Replace(s, old, new) == [k \in 1..Len(s) |-> IF s[k] = old THEN new ELSE s[k]]

\* _get_repo_path, lines 260-263
_get_repo_path(dataset) ==
    repo_base_path \o <<"/">> \o Replace(dataset.name, "/", "_")

\* mutant: the source is looked up under the dataset name
_get_snapshot_path_by_name(dataset, tag) ==
    <<"/">> \o dataset.name \o <<"/", ".zfs", "/", "snapshot", "/">> \o tag

\* _get_snapshot_path, lines 265-267
_get_snapshot_path(dataset, tag) ==
    dataset.mount_point \o <<"/", ".zfs", "/", "snapshot", "/">> \o tag

\* mutant: the archive name takes a tag generated when the name is built
_build_archive_name_fresh_tag(prefix, tag) ==
    prefix \o <<"_">> \o _generate_snapshot_tag(now) \o <<"_">> \o ArchiveTimestamp

\* _build_archive_name, lines 269-272
_build_archive_name(prefix, tag) ==
    prefix \o <<"_">> \o tag \o <<"_">> \o ArchiveTimestamp

----------------------------------------------------------------------------
(* BackupOrchestrator.backup_all and _orchestrate_dataset_backups *)

\* mutant: the restart is not in a finally block
finally_up_all_on_success(snapshot_exc) == snapshot_exc = NoExc

\* lines 150-154: the finally block runs up_all whether or not
\* create_snapshot raised
finally_up_all(snapshot_exc) == TRUE

\* mutant: a failed restart is ignored
after_finally_up_ignored(snapshot_exc, up_exc) == snapshot_exc

\* mutant: the snapshot error is dropped after the restart
after_finally_dropped(snapshot_exc, up_exc) == up_exc

\* exception that leaves the try/finally statement of lines 144-154: one
\* raised inside the finally block replaces the one in flight
after_finally(snapshot_exc, up_exc) ==
    IF up_exc # NoExc THEN up_exc ELSE snapshot_exc

\* mutant: an empty enumeration is an empty success
after_enumeration_empty_ok(ds) ==
    IF ds = << >> THEN [pc |-> "destroy", res |-> NoExc]
    ELSE [pc |-> "init_probe", res |-> NoExc]

\* lines 183-186: zero datasets raise RuntimeError
after_enumeration(ds) ==
    IF ds = << >>
    THEN [pc |-> "handler", res |-> RuntimeError("_orchestrate_dataset_backups")]
    ELSE [pc |-> "init_probe", res |-> NoExc]

\* mutant: a failing volume is logged and skipped
_backup_single_dataset_except_skip(e) == NoExc

\* _backup_single_dataset, lines 219-225: log, then re-raise
_backup_single_dataset_except(e) == e

\* mutant: each volume is checked right after its prune
archive_loop_next_interleaved(i, n) == [pc |-> "check", idx |-> i]

\* lines 189-193: next volume of the archive loop, then the check loop
archive_loop_next(i, n) ==
    IF i < n THEN [pc |-> "init_probe", idx |-> i + 1]
    ELSE [pc |-> "check", idx |-> 1]

\* mutant: the snapshot is not cleaned up after the check loop
check_loop_next_no_cleanup(i, n) ==
    IF i < n THEN [pc |-> "check", idx |-> i + 1]
    ELSE [pc |-> "returned", idx |-> i]

\* lines 193-198 and 156-161: next volume of the check loop, then the
\* destruction of the snapshot
check_loop_next(i, n) ==
    IF i < n THEN [pc |-> "check", idx |-> i + 1]
    ELSE [pc |-> "destroy", idx |-> i]

\* mutant: the handler does not re-raise
except_handler_swallow(e, created) == [raised |-> NoExc, reported |-> created]

\* lines 168-176: report the snapshot if the flag is set, then re-raise
except_handler(e, created) == [raised |-> e, reported |-> created]

\* mutant: the flag is set before create_snapshot is known to have returned
snapshot_created_after_always(res) == TRUE

\* lines 148-149: snapshot_created = True is reached only when
\* create_snapshot returned
snapshot_created_after(res) == res = NoExc

RunSnapshot == FullSnapshotName(parent_dataset, snapshot_tag)

CurRepo == _get_repo_path(datasets[idx])

CurArchive ==
    CurRepo \o <<"::">> \o _build_archive_name(archive_prefix, snapshot_tag)

\* mutant: a failed archive step starts the volume again
ArchiveStepRaises_retry(e) ==
    /\ exc' = exc
    /\ pc' = "init_probe"
    /\ idx' = idx

\* an exception leaves _backup_single_dataset (or is skipped by a mutant)
ArchiveStepRaises(e) ==
    LET r == _backup_single_dataset_except(e)
        nxt == archive_loop_next(idx, Len(datasets))
    IN IF r # NoExc
       THEN /\ exc' = r
            /\ pc' = "handler"
            /\ idx' = idx
       ELSE /\ exc' = exc
            /\ pc' = nxt.pc
            /\ idx' = nxt.idx

\* mutant: a failed stop is logged and the run goes on
_run_command_on_all_ignored(exit_code, src) == NoExc

\* DockerComposeManager._run_command_on_all: the first compose command with
\* an exit code outside ok_codes is logged and re-raised, the loop halts
_run_command_on_all(exit_code, src) ==
    IF exit_code = 0 THEN NoExc ELSE ErrorReturnCode(src)

\* step 1, line 142: docker_manager.stop_all()
BackupStopAll ==
    /\ pc = "start"
    /\ \E code \in PlainExitCodes :
         LET e == _run_command_on_all(code, "docker stop")
         IN /\ calls' = calls \o <<Call("stop_all", << >>), Cmd("docker stop", << >>, code)>>
            /\ services' = IF code = 0 THEN "stopped" ELSE "partial"
            /\ IF e = NoExc
               THEN /\ pc' = "snapshot"
                    /\ exc' = exc
               ELSE /\ pc' = "handler"
                    /\ exc' = e
    /\ UNCHANGED <<filesystems, listing, repos, archives, snaps, zfsVars, prev,
                   snapshot_tag, snapshot_created, datasets, idx, reported, borgVars,
                   procVars>>

\* step 2, line 148: zfs_manager.create_snapshot(self.snapshot_tag, recursive=True)
BackupCreateSnapshot ==
    /\ pc = "snapshot"
    /\ zpc = "idle"
    /\ ZfsEnter("create_snapshot", snapshot_tag, << >>, TRUE)
    /\ calls' = Append(calls, Call("create_snapshot", RunSnapshot))
    /\ pc' = "create_snapshot"
    /\ UNCHANGED <<envVars, snaps, prev, snapshot_tag, snapshot_created, exc,
                   datasets, idx, reported, borgVars, procVars>>

\* lines 149-154: create_snapshot has returned or raised; set the flag if it
\* returned, then run the finally block (docker_manager.up_all())
BackupUpAll ==
    /\ pc = "create_snapshot"
    /\ zpc = "return"
    /\ zpc' = "idle"
    /\ snapshot_created' = snapshot_created_after(zres)
    /\ IF finally_up_all(zres)
       THEN \E code \in PlainExitCodes :
              LET e == after_finally(zres, IF code = 0 THEN NoExc
                                           ELSE ErrorReturnCode("docker up"))
              IN /\ calls' = calls \o <<Call("up_all", << >>), Cmd("docker up", << >>, code)>>
                 /\ services' = IF code = 0 THEN "running" ELSE "partial"
                 /\ exc' = e
                 /\ pc' = IF e = NoExc THEN "enumerate" ELSE "handler"
       ELSE /\ calls' = calls
            /\ services' = services
            /\ exc' = zres
            /\ pc' = IF zres = NoExc THEN "enumerate" ELSE "handler"
    /\ UNCHANGED <<filesystems, listing, repos, archives, snaps, zop, zres, snaps0,
                   prev, snapshot_tag, datasets, idx, reported, borgVars,
                   procVars>>

\* lines 181-186: datasets = list(get_datasets()); zero datasets is an error
BackupEnumerate ==
    /\ pc = "enumerate"
    /\ \E code \in PlainExitCodes :
         LET ds == get_datasets(listing)
             nxt == after_enumeration(ds)
         IN /\ calls' = calls \o <<Call("get_datasets", parent_dataset),
                                   Cmd("zfs list -r", parent_dataset, code)>>
            /\ IF code # 0
               THEN /\ exc' = ErrorReturnCode("zfs list -r")
                    /\ pc' = "handler"
                    /\ UNCHANGED <<datasets, idx>>
               ELSE /\ datasets' = ds
                    /\ exc' = nxt.res
                    /\ pc' = nxt.pc
                    /\ idx' = IF ds = << >> THEN idx ELSE 1
    /\ UNCHANGED <<envVars, snaps, zfsVars, prev, snapshot_tag, snapshot_created,
                   reported, borgVars, procVars>>

\* _backup_single_snapshot, line 240: initialize_if_needed, first probe
BorgInitProbe ==
    /\ pc = "init_probe"
    /\ \E code \in BorgInfoExitCodes(repos, CurRepo) :
         LET nxt == initialize_if_needed_precheck(_repository_exists(code))
         IN /\ calls' = calls \o <<Call("initialize_if_needed", CurRepo),
                                   Cmd("borg info", CurRepo, code)>>
            /\ IF nxt.pc = "fail"
               THEN ArchiveStepRaises(nxt.res)
               ELSE /\ pc' = nxt.pc
                    /\ UNCHANGED <<exc, idx>>
    /\ UNCHANGED <<envVars, snaps, zfsVars, prev, snapshot_tag, snapshot_created,
                   datasets, reported, borgVars, procVars>>

\* initialize_if_needed, line 160: borg init
BorgInitCommand ==
    /\ pc = "init_cmd"
    /\ \E o \in BorgInitOutcomes(repos, CurRepo) :
         LET e == borg_execute_command(o.code, "borg init")
         IN /\ repos' = o.repos
            /\ calls' = Append(calls, Cmd("borg init", CurRepo, o.code))
            /\ IF e # NoExc
               THEN ArchiveStepRaises(e)
               ELSE /\ pc' = "init_verify"
                    /\ UNCHANGED <<exc, idx>>
    /\ UNCHANGED <<filesystems, listing, archives, services, snaps, zfsVars, prev,
                   snapshot_tag, snapshot_created, datasets, reported, borgVars,
                   procVars>>

\* initialize_if_needed, lines 164-168: verification probe
BorgInitVerify ==
    /\ pc = "init_verify"
    /\ \E code \in BorgInfoExitCodes(repos, CurRepo) :
         LET e == initialize_if_needed_verify(_repository_exists(code))
         IN /\ calls' = Append(calls, Cmd("borg info", CurRepo, code))
            /\ IF e # NoExc
               THEN ArchiveStepRaises(e)
               ELSE /\ pc' = "create"
                    /\ UNCHANGED <<exc, idx>>
    /\ UNCHANGED <<envVars, snaps, zfsVars, prev, snapshot_tag, snapshot_created,
                   datasets, reported, borgVars, procVars>>

\* _backup_single_snapshot, lines 241-246: create_archive
BorgCreate ==
    /\ pc = "create"
    /\ \E o \in BorgCreateOutcomes(repos, snaps, archives, CurRepo,
                      _build_archive_name(archive_prefix, snapshot_tag),
                      _get_snapshot_path(datasets[idx], snapshot_tag)) :
         LET e == borg_execute_command(o.code, "borg create")
         IN /\ archives' = o.archives
            /\ calls' = calls \o <<Call("create_archive", CurArchive \o <<" ">>
                                        \o _get_snapshot_path(datasets[idx], snapshot_tag)),
                                   Cmd("borg create", CurArchive, o.code)>>
            /\ IF e # NoExc
               THEN ArchiveStepRaises(e)
               ELSE /\ pc' = "prune"
                    /\ UNCHANGED <<exc, idx>>
    /\ UNCHANGED <<filesystems, listing, repos, services, snaps, zfsVars, prev,
                   snapshot_tag, snapshot_created, datasets, reported, borgVars,
                   procVars>>

\* _backup_single_snapshot, line 247: prune_archives; then the next volume
BorgPrune ==
    /\ pc = "prune"
    /\ \E code \in PlainExitCodes :
         LET e == borg_execute_command(code, "borg prune")
             nxt == archive_loop_next(idx, Len(datasets))
         IN /\ calls' = calls \o <<Call("prune_archives", CurRepo),
                                   Cmd("borg prune", CurRepo, code)>>
            /\ IF e # NoExc
               THEN ArchiveStepRaises(e)
               ELSE /\ pc' = nxt.pc
                    /\ idx' = nxt.idx
                    /\ exc' = exc
    /\ UNCHANGED <<envVars, snaps, zfsVars, prev, snapshot_tag, snapshot_created,
                   datasets, reported, borgVars, procVars>>

\* mutant: a failed integrity check is logged and the loop goes on
check_repository_logged(exit_code) == NoExc

\* check_repository, lines 383-392: a non-zero exit status is logged and
\* re-raised; _check_single_repository (253-258) catches nothing
check_repository(exit_code) ==
    IF exit_code = 0 THEN NoExc ELSE ErrorReturnCode("borg check")

\* lines 193-196 and 253-258: check_repository of the next volume
BorgCheck ==
    /\ pc = "check"
    /\ \E code \in PlainExitCodes :
         LET nxt == check_loop_next(idx, Len(datasets))
         IN /\ calls' = calls \o <<Call("check_repository", CurRepo),
                                   Cmd("borg check", CurRepo, code)>>
            /\ IF check_repository(code) # NoExc
               THEN /\ exc' = check_repository(code)
                    /\ pc' = "handler"
                    /\ idx' = idx
               ELSE /\ pc' = nxt.pc
                    /\ idx' = nxt.idx
                    /\ exc' = exc
    /\ UNCHANGED <<envVars, snaps, zfsVars, prev, snapshot_tag, snapshot_created,
                   datasets, reported, borgVars, procVars>>

\* line 161: zfs_manager.destroy_snapshot(self.snapshot_tag, recursive=True)
BackupDestroySnapshot ==
    /\ pc = "destroy"
    /\ zpc = "idle"
    /\ ZfsEnter("destroy_snapshot", snapshot_tag, << >>, TRUE)
    /\ calls' = Append(calls, Call("destroy_snapshot", RunSnapshot))
    /\ pc' = "destroy_snapshot"
    /\ UNCHANGED <<envVars, snaps, prev, snapshot_tag, snapshot_created, exc,
                   datasets, idx, reported, borgVars, procVars>>

\* lines 162-166: destroy_snapshot has returned (clear the flag, finish) or raised
BackupAfterDestroy ==
    /\ pc = "destroy_snapshot"
    /\ zpc = "return"
    /\ zpc' = "idle"
    /\ IF zres = NoExc
       THEN /\ snapshot_created' = FALSE
            /\ pc' = "returned"
            /\ exc' = exc
       ELSE /\ snapshot_created' = snapshot_created
            /\ pc' = "handler"
            /\ exc' = zres
    /\ UNCHANGED <<envVars, snaps, calls, zop, zres, snaps0, prev, snapshot_tag,
                   datasets, idx, reported, borgVars, procVars>>

\* lines 168-176: the except block
BackupHandler ==
    /\ pc = "handler"
    /\ LET h == except_handler(exc, snapshot_created)
       IN /\ reported' = h.reported
          /\ exc' = h.raised
          /\ pc' = IF h.raised = NoExc THEN "returned" ELSE "raised"
    /\ UNCHANGED <<envVars, snaps, calls, zfsVars, prev, snapshot_tag,
                   snapshot_created, datasets, idx, borgVars, procVars>>

----------------------------------------------------------------------------
(* One run of backup_all over every storage and repository state *)

LineKinds == {"mounted", "unmounted", "malformed"}

\* a line of `zfs list -H -o name,mountpoint', split at the tab
ListingLine(k, kind) ==
    IF kind = "mounted" THEN <<ChildDataset(k), MountPoint(k)>>
    ELSE IF kind = "unmounted" THEN <<ChildDataset(k), <<"-">>>>
    ELSE <<ChildDataset(k)>>

Init ==
    /\ filesystems = {parent_dataset} \cup {ChildDataset(k) : k \in 1..MaxVols}
    /\ snaps \in SUBSET {FullSnapshotName(parent_dataset, RunTag),
                         FullSnapshotName(ChildDataset(1), RunTag)}
    /\ \E kinds \in [1..MaxVols -> LineKinds] :
         listing = [k \in 1..MaxVols |-> ListingLine(k, kinds[k])]
    /\ repos \in SUBSET {_get_repo_path([name |-> ChildDataset(k)]) : k \in 1..MaxVols}
    /\ archives = {}
    /\ services = "running"
    /\ calls = << >>
    /\ zpc = "idle"
    /\ zop = NoOp
    /\ zres = NoExc
    /\ snaps0 = {}
    /\ prev = NoPrev
    /\ pc = "start"
    /\ snapshot_tag = RunTag
    /\ snapshot_created = FALSE
    /\ exc = NoExc
    /\ datasets = << >>
    /\ idx = 0
    /\ reported = FALSE
    /\ BorgOff
    /\ ProcOff

Next ==
    \/ BackupStopAll
    \/ BackupCreateSnapshot
    \/ ZfsPrecheck
    \/ ZfsCommand
    \/ ZfsVerify
    \/ BackupUpAll
    \/ BackupEnumerate
    \/ BorgInitProbe
    \/ BorgInitCommand
    \/ BorgInitVerify
    \/ BorgCreate
    \/ BorgPrune
    \/ BorgCheck
    \/ BackupDestroySnapshot
    \/ BackupAfterDestroy
    \/ BackupHandler

Spec == Init /\ [][Next]_vars

----------------------------------------------------------------------------
(* One run of backup_all on a fresh store: the parent pool/svcs holds the *)
(* mounted volumes a and b (zfs_manager.py get_datasets, lines 309-318:   *)
(* `zfs list -r <parent>' prints the parent's own line first)             *)

E2EVols == 2

\* the parent's mountpoint column: a path, or `none' when it is not mounted
ParentMountPoints == {zfs_base_mountpoint, <<"none">>}

InitE2E ==
    /\ filesystems = {parent_dataset} \cup {ChildDataset(k) : k \in 1..E2EVols}
    /\ snaps = {}
    /\ \E mp \in ParentMountPoints :
         listing = <<<<parent_dataset, mp>>>>
                     \o [k \in 1..E2EVols |-> ListingLine(k, "mounted")]
    /\ repos = {}
    /\ archives = {}
    /\ services = "running"
    /\ calls = << >>
    /\ zpc = "idle"
    /\ zop = NoOp
    /\ zres = NoExc
    /\ snaps0 = {}
    /\ prev = NoPrev
    /\ pc = "start"
    /\ snapshot_tag = RunTag
    /\ snapshot_created = FALSE
    /\ exc = NoExc
    /\ datasets = << >>
    /\ idx = 0
    /\ reported = FALSE
    /\ BorgOff
    /\ ProcOff

SpecE2E == InitE2E /\ [][Next]_vars

----------------------------------------------------------------------------
(* The repository paths of the enumerated volumes (backup_manager.py,     *)
(* lines 189-196 and 260-263), for any two volumes below the parent       *)

NameTokens == {"a", "/", "_"}

\* names below the parent: components separated by "/", each starting
\* with an alphanumeric character
IsVolumeTail(t) ==
    /\ t[1] = "a"
    /\ t[Len(t)] # "/"
    /\ \A i \in 1..(Len(t) - 1) : t[i] = "/" => t[i + 1] = "a"

VolumeTails ==
    UNION {{t \in [1..n -> NameTokens] : IsVolumeTail(t)} : n \in 1..MaxNameLen}

ZFSDataset(tail) ==
    [name |-> parent_dataset \o <<"/">> \o tail,
     mount_point |-> zfs_base_mountpoint \o <<"/">> \o tail]

InitNames ==
    /\ filesystems = {parent_dataset}
    /\ snaps = {}
    /\ listing = << >>
    /\ repos = {}
    /\ archives = {}
    /\ services = "running"
    /\ calls = << >>
    /\ zpc = "idle"
    /\ zop = NoOp
    /\ zres = NoExc
    /\ snaps0 = {}
    /\ prev = NoPrev
    /\ pc = "off"
    /\ snapshot_tag = << >>
    /\ snapshot_created = FALSE
    /\ exc = NoExc
    /\ \E t1 \in VolumeTails :
         \E t2 \in VolumeTails \ {t1} :
            datasets = <<ZFSDataset(t1), ZFSDataset(t2)>>
    /\ idx = 0
    /\ reported = FALSE
    /\ BorgOff
    /\ ProcOff

\* repo_path = self._get_repo_path(dataset), for the next volume
ResolveRepoPath ==
    /\ pc = "off"
    /\ zpc = "idle"
    /\ bpc = "idle"
    /\ idx < Len(datasets)
    /\ idx' = idx + 1
    /\ calls' = Append(calls, Call("_get_repo_path", _get_repo_path(datasets[idx + 1])))
    /\ UNCHANGED <<envVars, snaps, zfsVars, prev, pc, snapshot_tag, snapshot_created,
                   exc, datasets, reported, borgVars, procVars>>

NextNames == ResolveRepoPath

SpecNames == InitNames /\ [][NextNames]_vars

----------------------------------------------------------------------------
(* The key file and the archive tool's key export *)

\* keyfile tells what lies at key_file_path: "absent", "old" (a file from
\* an earlier export), "partial" (left by a failed export) or "exported"

\* key_file_path.parent.mkdir(parents=True, exist_ok=True): cannot fail when
\* the file, hence its directory, exists; code 1 stands for OSError
MkdirCodes(kf) == IF kf = "absent" THEN {0, 1} ELSE {0}

\* outcomes of `borg key export --paper <repo> <path>': [code, keyfile]
BorgKeyExportOutcomes(existing, repo_path, kf) ==
    {[code |-> 2, keyfile |-> kf], [code |-> 2, keyfile |-> "partial"]}
    \cup (IF repo_path \in existing
          THEN {[code |-> 0, keyfile |-> "exported"]} ELSE {})

\* exit status of `borg list' run with BORG_KEY_FILE set
BorgListExitCodes(existing, repo_path) ==
    {2} \cup (IF repo_path \in existing THEN {0} ELSE {})

\* outcomes of key_file_path.unlink(): [code, keyfile]; code 1 stands for
\* OSError (no such file, or the file cannot be removed)
UnlinkOutcomes(kf) ==
    IF kf = "absent" THEN {[code |-> 1, keyfile |-> kf]}
    ELSE {[code |-> 0, keyfile |-> "absent"], [code |-> 1, keyfile |-> kf]}

\* outcomes of `borg delete ::<name>': [code, archives afterwards]
BorgDeleteOutcomes(existing, stored, repo_path, archive_name) ==
    {[code |-> 2, archives |-> stored]}
    \cup (IF repo_path \in existing /\ <<repo_path, archive_name>> \in stored
          THEN {[code |-> 0, archives |-> stored \ {<<repo_path, archive_name>>}]}
          ELSE {})

OSError(src) == [type |-> "OSError", src |-> src]

----------------------------------------------------------------------------
(* BorgBackupRepoManager.export_recovery_key *)

\* lines 202-214: after a failed export the file is unlinked if it exists
export_failed_next(kf) ==
    IF kf # "absent" THEN "export_cleanup" ELSE "return"

----------------------------------------------------------------------------
(* BorgBackupRepoManager driven by its callers: a sequence of method      *)
(* invocations on manager instances (orchestrator.py, lines 193-344)      *)

RepoPaths == {_get_repo_path([name |-> ChildDataset(k)]) : k \in 1..MaxRepos}

\* the path the volume's snapshot is read from (orchestrator.py, 286-293)
SourcePathOf(repo_path) ==
    LET k == CHOOSE v \in 1..MaxRepos :
                 _get_repo_path([name |-> ChildDataset(v)]) = repo_path
    IN _get_snapshot_path([mount_point |-> MountPoint(k)], RunTag)

ManualArchive == _build_archive_name(archive_prefix, RunTag)

\* methods that issue one command through _execute_command
SingleCommandOps ==
    {"create_archive", "prune_archives", "check_repository",
     "list_archives", "extract_archive", "delete_archive"}

BorgOps == {"initialize_if_needed", "export_recovery_key"} \cup SingleCommandOps

BorgEntry(op) ==
    IF op = "initialize_if_needed" THEN "init_probe"
    ELSE IF op = "export_recovery_key" THEN "export_mkdir"
    ELSE "run"

BorgCommandName(op) ==
    IF op = "create_archive" THEN "borg create"
    ELSE IF op = "prune_archives" THEN "borg prune"
    ELSE IF op = "check_repository" THEN "borg check"
    ELSE IF op = "list_archives" THEN "borg list"
    ELSE IF op = "extract_archive" THEN "borg extract"
    ELSE "borg delete"

InitBorg ==
    /\ filesystems = {parent_dataset} \cup {ChildDataset(k) : k \in 1..MaxRepos}
    /\ snaps = {FullSnapshotName(ChildDataset(k), RunTag) : k \in 1..MaxRepos}
    /\ listing = << >>
    /\ repos \in SUBSET RepoPaths
    /\ archives = {}
    /\ services = "running"
    /\ calls = << >>
    /\ zpc = "idle"
    /\ zop = NoOp
    /\ zres = NoExc
    /\ snaps0 = {}
    /\ prev = NoPrev
    /\ PipelineOff
    /\ keyfile \in {"absent", "old"}
    /\ bpc = "idle"
    /\ bop = NoBop
    /\ bres = NoExc
    /\ repos0 = {}
    /\ bprev = NoBPrev
    /\ ProcOff

\* a caller invokes a method of the manager built for repo_path
BorgInvoke ==
    /\ bpc = "idle"
    /\ pc = "off"
    /\ zpc = "idle"
    /\ \E op \in BorgOps, repo_path \in RepoPaths :
         /\ bop' = [op |-> op, repo_path |-> repo_path,
                    source_path |-> SourcePathOf(repo_path)]
         /\ bpc' = BorgEntry(op)
         /\ calls' = <<Call(op, repo_path)>>
    /\ bres' = NoExc
    /\ repos0' = repos
    /\ UNCHANGED <<envVars, snaps, zfsVars, prev, pipeVars, keyfile, bprev,
                   procVars>>

\* initialize_if_needed, lines 144-153: the pre-check probe
BorgMgrInitProbe ==
    /\ bpc = "init_probe"
    /\ \E code \in BorgInfoExitCodes(repos, bop.repo_path) :
         LET nxt == initialize_if_needed_precheck(_repository_exists(code))
         IN /\ calls' = Append(calls, Cmd("borg info", bop.repo_path, code))
            /\ bres' = nxt.res
            /\ bpc' = IF nxt.pc = "init_cmd" THEN "init_cmd" ELSE "return"
    /\ UNCHANGED <<envVars, snaps, zfsVars, prev, pipeVars, keyfile, bop, repos0, bprev,
                   procVars>>

\* initialize_if_needed, line 160: borg init
BorgMgrInitCommand ==
    /\ bpc = "init_cmd"
    /\ \E o \in BorgInitOutcomes(repos, bop.repo_path) :
         /\ repos' = o.repos
         /\ calls' = Append(calls, Cmd("borg init", bop.repo_path, o.code))
         /\ bres' = borg_execute_command(o.code, "borg init")
         /\ bpc' = IF bres' = NoExc THEN "init_verify" ELSE "return"
    /\ UNCHANGED <<filesystems, listing, archives, services, snaps, zfsVars, prev,
                   pipeVars, keyfile, bop, repos0, bprev, procVars>>

\* initialize_if_needed, lines 164-168: the verification probe
BorgMgrInitVerify ==
    /\ bpc = "init_verify"
    /\ \E code \in BorgInfoExitCodes(repos, bop.repo_path) :
         /\ calls' = Append(calls, Cmd("borg info", bop.repo_path, code))
         /\ bres' = initialize_if_needed_verify(_repository_exists(code))
    /\ bpc' = "return"
    /\ UNCHANGED <<envVars, snaps, zfsVars, prev, pipeVars, keyfile, bop, repos0, bprev,
                   procVars>>

\* create_archive, prune_archives, check_repository, list_archives,
\* extract_archive, delete_archive: one command, a non-zero exit re-raises
BorgRun ==
    /\ bpc = "run"
    /\ LET name == BorgCommandName(bop.op)
           outs == IF bop.op = "create_archive"
                   THEN BorgCreateOutcomes(repos, snaps, archives, bop.repo_path,
                                           ManualArchive, bop.source_path)
                   ELSE IF bop.op = "delete_archive"
                   THEN BorgDeleteOutcomes(repos, archives, bop.repo_path, ManualArchive)
                   ELSE {[code |-> c, archives |-> archives] : c \in PlainExitCodes}
       IN \E o \in outs :
            /\ archives' = o.archives
            /\ calls' = Append(calls, Cmd(name, bop.repo_path, o.code))
            /\ bres' = borg_execute_command(o.code, name)
    /\ bpc' = "return"
    /\ UNCHANGED <<filesystems, listing, repos, services, snaps, zfsVars, prev,
                   pipeVars, keyfile, bop, repos0, bprev, procVars>>

\* export_recovery_key, line 194: the destination directory is created
BorgExportMkdir ==
    /\ bpc = "export_mkdir"
    /\ \E code \in MkdirCodes(keyfile) :
         /\ calls' = Append(calls, Cmd("mkdir", bop.repo_path, code))
         /\ bres' = IF code = 0 THEN NoExc ELSE OSError("mkdir")
         /\ bpc' = IF code = 0 THEN "export_cmd" ELSE "return"
    /\ UNCHANGED <<envVars, snaps, zfsVars, prev, pipeVars, keyfile, bop, repos0, bprev,
                   procVars>>

\* export_recovery_key, lines 197-204: borg key export
BorgExportCommand ==
    /\ bpc = "export_cmd"
    /\ \E o \in BorgKeyExportOutcomes(repos, bop.repo_path, keyfile) :
         /\ keyfile' = o.keyfile
         /\ calls' = Append(calls, Cmd("borg key export", bop.repo_path, o.code))
         /\ bres' = borg_execute_command(o.code, "borg key export")
         /\ bpc' = IF bres' = NoExc THEN "export_verify"
                   ELSE export_failed_next(o.keyfile)
    /\ UNCHANGED <<envVars, snaps, zfsVars, prev, pipeVars, bop, repos0, bprev,
                   procVars>>

\* export_recovery_key, lines 206-214: unlink the partial file, an OSError
\* is logged, then the export error is re-raised
BorgExportCleanup ==
    /\ bpc = "export_cleanup"
    /\ \E o \in UnlinkOutcomes(keyfile) :
         /\ keyfile' = o.keyfile
         /\ calls' = Append(calls, Cmd("unlink", bop.repo_path, o.code))
    /\ bpc' = "return"
    /\ UNCHANGED <<envVars, snaps, zfsVars, prev, pipeVars, bop, bres, repos0, bprev,
                   procVars>>

\* export_recovery_key, lines 228-236: borg list with the exported key
BorgExportVerify ==
    /\ bpc = "export_verify"
    /\ \E code \in BorgListExitCodes(repos, bop.repo_path) :
         /\ calls' = Append(calls, Cmd("borg list", bop.repo_path, code))
         /\ bres' = IF code = 0 THEN NoExc ELSE ErrorReturnCode("borg list")
         /\ bpc' = IF code = 0 THEN "return" ELSE "verify_cleanup"
    /\ UNCHANGED <<envVars, snaps, zfsVars, prev, pipeVars, keyfile, bop, repos0, bprev,
                   procVars>>

\* export_recovery_key, lines 254-264: unlink the invalid file, an OSError
\* is logged, then the verification error is re-raised
BorgVerifyCleanup ==
    /\ bpc = "verify_cleanup"
    /\ \E o \in UnlinkOutcomes(keyfile) :
         /\ keyfile' = o.keyfile
         /\ calls' = Append(calls, Cmd("unlink", bop.repo_path, o.code))
    /\ bpc' = "return"
    /\ UNCHANGED <<envVars, snaps, zfsVars, prev, pipeVars, bop, bres, repos0, bprev,
                   procVars>>

\* the method returns or raises to its caller
BorgFinish ==
    /\ bpc = "return"
    /\ pc = "off"
    /\ bpc' = "idle"
    /\ bprev' = [bop |-> bop, res |-> bres, calls |-> calls, repos0 |-> repos0]
    /\ UNCHANGED <<envVars, snaps, calls, zfsVars, prev, pipeVars, keyfile, bop, bres,
                   repos0, procVars>>

NextBorg ==
    \/ BorgInvoke
    \/ BorgMgrInitProbe
    \/ BorgMgrInitCommand
    \/ BorgMgrInitVerify
    \/ BorgRun
    \/ BorgExportMkdir
    \/ BorgExportCommand
    \/ BorgExportCleanup
    \/ BorgExportVerify
    \/ BorgVerifyCleanup
    \/ BorgFinish

SpecBorg == InitBorg /\ [][NextBorg]_vars

----------------------------------------------------------------------------
(* One invocation of a manager method from the command line, in any       *)
(* environment (zfs_manager.py main 431-471, borg_backup_manager.py       *)
(* 398-468)                                                               *)

InitCli ==
    /\ \E present \in SUBSET (1..MaxScopeVols) :
         filesystems = {parent_dataset} \cup {ChildDataset(k) : k \in present}
    /\ snaps \in SUBSET {FullSnapshotName(f, t) : f \in filesystems, t \in Tags}
    /\ listing = << >>
    /\ repos \in SUBSET RepoPaths
    /\ archives = {}
    /\ services = "running"
    /\ calls = << >>
    /\ zpc = "idle"
    /\ zop = NoOp
    /\ zres = NoExc
    /\ snaps0 = {}
    /\ prev = NoPrev
    /\ PipelineOff
    /\ keyfile \in {"absent", "old"}
    /\ bpc = "idle"
    /\ bop = NoBop
    /\ bres = NoExc
    /\ repos0 = {}
    /\ bprev = NoBPrev
    /\ ProcOff

\* the process has not run a method to completion yet
FirstCall == prev = NoPrev /\ bprev = NoBPrev

CliZfs ==
    /\ FirstCall
    /\ bpc = "idle"
    /\ NextZfs

CliBorg ==
    /\ FirstCall
    /\ zpc = "idle"
    /\ NextBorg

NextCli == CliZfs \/ CliBorg

SpecCli == InitCli /\ [][NextCli]_vars

----------------------------------------------------------------------------
(* Reading the trace *)

Finished == pc \in {"returned", "raised"}

Failing == pc \in {"handler", "raised"}

StopReturned == \E p \in 1..Len(calls) : calls[p] = Cmd("docker stop", << >>, 0)

\* create_snapshot was entered and has returned normally: not-found probe,
\* successful command, found probe
CreateSnapshotReturned ==
    \E p \in 1..Len(calls) :
        /\ calls[p] = Call("create_snapshot", RunSnapshot)
        /\ Len(calls) >= p + 3
        /\ calls[p + 1] = Cmd("zfs list", RunSnapshot, 1)
        /\ calls[p + 2] = Cmd("zfs snapshot", RunSnapshot, 0)
        /\ calls[p + 3] = Cmd("zfs list", RunSnapshot, 0)

\* create_snapshot was entered and has raised
CreateSnapshotRaised ==
    /\ Count(calls, "call", "create_snapshot") = 1
    /\ pc \notin {"start", "snapshot", "create_snapshot"}
    /\ ~CreateSnapshotReturned

RepoOps == {"initialize_if_needed", "create_archive", "prune_archives",
            "check_repository", "borg info", "borg init", "borg create",
            "borg prune", "borg check"}

RepoOpPositions == {p \in 1..Len(calls) : calls[p].name \in RepoOps}

\* the repository a trace entry addresses (the part before "::")
EntryRepo(e) ==
    IF \E i \in 1..Len(e.arg) : e.arg[i] = "::"
    THEN SubSeq(e.arg, 1, (CHOOSE i \in 1..Len(e.arg) : e.arg[i] = "::") - 1)
    ELSE e.arg

\* commands of the archive step (initialize, create, prune) that made it raise
FailedArchiveSteps ==
    {p \in 1..Len(calls) :
        /\ calls[p].ev = "cmd"
        /\ \/ calls[p].name \in {"borg init", "borg create", "borg prune"}
              /\ calls[p].code # 0
           \/ calls[p].name = "borg info" /\ calls[p].code = 1
           \/ /\ calls[p].name = "borg info" /\ calls[p].code = 2
              /\ calls[p - 1].name = "borg init"}

\* index in the enumeration of the volume whose repository the entry addresses
VolumeOf(e) ==
    CHOOSE k \in 1..Len(datasets) : _get_repo_path(datasets[k]) = EntryRepo(e)

ArchiveOf(dataset) ==
    <<_get_repo_path(dataset), _build_archive_name(archive_prefix, snapshot_tag)>>

ArchivedAndPrunedBefore(p, dataset) ==
    /\ \E q \in 1..(p - 1) :
         calls[q] = Cmd("borg create", _get_repo_path(dataset) \o <<"::">>
                          \o _build_archive_name(archive_prefix, snapshot_tag), 0)
    /\ \E q \in 1..(p - 1) :
         calls[q] = Cmd("borg prune", _get_repo_path(dataset), 0)

IsCheckCall(e) == e.ev = "call" /\ e.name = "check_repository"

CheckCalls == SelectSeq(calls, IsCheckCall)

----------------------------------------------------------------------------
(* Properties of backup_all *)

\* C1: in every run in which stop_all returned, up_all is invoked exactly
\* once: it has been invoked once as soon as create_snapshot has returned or
\* raised, and never a second time.
C1_RestartExactlyOnce ==
    /\ Count(calls, "call", "up_all") <= 1
    /\ (StopReturned /\ pc \notin {"start", "snapshot", "create_snapshot"})
          => Count(calls, "call", "up_all") = 1

C1_Witness ==
    /\ pc = "raised"
    /\ StopReturned
    /\ CreateSnapshotRaised
    /\ Count(calls, "call", "up_all") = 1

\* C2: when a step between the successful return of create_snapshot and the
\* destruction of the snapshot raises (restart, enumeration, zero volumes,
\* init, create, prune, check), destroy_snapshot is never invoked, the run's
\* snapshot still exists, and the handler re-raises the very exception.
C2_SnapshotLeftAndReraised ==
    /\ []((Failing /\ CreateSnapshotReturned
             /\ exc.src \notin {"zfs list", "zfs destroy", "destroy_snapshot"})
          => /\ Count(calls, "call", "destroy_snapshot") = 0
             /\ Count(calls, "cmd", "zfs destroy") = 0
             /\ RunSnapshot \in snaps
             /\ exc # NoExc)
    /\ [][(pc = "handler" /\ CreateSnapshotReturned)
            => (pc' = "raised" /\ exc' = exc)]_vars

C2_Witness ==
    /\ pc = "raised"
    /\ CreateSnapshotReturned
    /\ exc = ErrorReturnCode("borg prune")
    /\ RunSnapshot \in snaps

\* C3: when backup_all returns normally, destroy_snapshot was invoked exactly
\* once and issued exactly one destroy command, after every volume had been
\* archived, pruned and checked, and the run's snapshot no longer exists.
C3_DestroyOnceOnSuccess ==
    pc = "returned" =>
        /\ Count(calls, "call", "destroy_snapshot") = 1
        /\ Count(calls, "cmd", "zfs destroy") = 1
        /\ \A d \in Positions(calls, "call", "destroy_snapshot") :
              /\ \A p \in RepoOpPositions : p < d
              /\ \A k \in 1..Len(datasets) :
                    /\ ArchivedAndPrunedBefore(d, datasets[k])
                    /\ \E q \in 1..(d - 1) :
                         calls[q] = Cmd("borg check", _get_repo_path(datasets[k]), 0)
        /\ Len(datasets) > 0
        /\ RunSnapshot \notin snaps

C3_Witness ==
    /\ pc = "returned"
    /\ Len(datasets) >= 2
    /\ Count(calls, "cmd", "zfs destroy") = 1

\* C4: when the archive step of volume k fails, volumes 1..k-1 have their
\* archives, nothing is attempted on the repositories of volumes k+1..n or
\* after the failing command, no integrity check is run, backup_all is
\* raising, and the run's snapshot still exists.
C4_FailFast ==
    \A p \in FailedArchiveSteps :
        /\ Failing
        /\ exc # NoExc
        /\ \A q \in RepoOpPositions : q <= p
        /\ \A j \in 1..Len(datasets) :
              /\ j < VolumeOf(calls[p]) => ArchiveOf(datasets[j]) \in archives
              /\ j > VolumeOf(calls[p]) =>
                    \A q \in RepoOpPositions :
                        EntryRepo(calls[q]) # _get_repo_path(datasets[j])
        /\ Count(calls, "call", "check_repository") = 0
        /\ Count(calls, "cmd", "borg check") = 0
        /\ Count(calls, "call", "destroy_snapshot") = 0
        /\ RunSnapshot \in snaps

C4_Witness ==
    /\ pc = "raised"
    /\ Len(datasets) = 3
    /\ idx = 2
    /\ exc = ErrorReturnCode("borg create")
    /\ ArchiveOf(datasets[1]) \in archives

\* C5: when create_snapshot raises, the exception backup_all raises to its
\* caller is create_snapshot's own, raised after up_all has been invoked.
C5_SnapshotErrorPropagated ==
    (pc = "raised" /\ CreateSnapshotRaised) =>
        /\ exc = zres
        /\ Count(calls, "call", "up_all") = 1

\* C6: after create_snapshot has raised, the run performs no enumeration, no
\* repository operation and no snapshot destruction.
C6_AbortedAfterSnapshotFailure ==
    CreateSnapshotRaised =>
        /\ Failing
        /\ RepoOpPositions = {}
        /\ Count(calls, "call", "get_datasets") = 0
        /\ Count(calls, "cmd", "zfs list -r") = 0
        /\ Count(calls, "call", "destroy_snapshot") = 0
        /\ Count(calls, "cmd", "zfs destroy") = 0

C6_Witness ==
    /\ pc = "raised"
    /\ CreateSnapshotRaised
    /\ Count(calls, "cmd", "docker up") = 1
    /\ exc = FileExistsError

\* C7: every integrity check is issued after create-archive and prune have
\* succeeded for every enumerated volume, and the checks visit the
\* repositories in enumeration order, all of them once the loop is through.
C7_TwoPhase ==
    /\ \A p \in Positions(calls, "call", "check_repository") :
          \A k \in 1..Len(datasets) : ArchivedAndPrunedBefore(p, datasets[k])
    /\ Len(CheckCalls) <= Len(datasets)
    /\ \A j \in 1..Len(CheckCalls) :
          CheckCalls[j].arg = _get_repo_path(datasets[j])
    /\ pc \in {"destroy", "destroy_snapshot", "returned"}
          => Len(CheckCalls) = Len(datasets)

C7_Witness ==
    /\ pc = "check"
    /\ idx = 3
    /\ Len(CheckCalls) = 2
    /\ Len(datasets) = 3

\* C8: when the enumeration yields no mounted volume, backup_all raises the
\* RuntimeError of _orchestrate_dataset_backups, performs no repository
\* operation and does not destroy the run's snapshot.
C8_NoVolumesIsAnError ==
    ((\E p \in 1..Len(calls) : calls[p] = Cmd("zfs list -r", parent_dataset, 0))
       /\ get_datasets(listing) = << >>)
    => /\ Failing
       /\ exc = RuntimeError("_orchestrate_dataset_backups")
       /\ RepoOpPositions = {}
       /\ Count(calls, "call", "destroy_snapshot") = 0
       /\ RunSnapshot \in snaps

C8_Witness ==
    /\ pc = "raised"
    /\ exc = RuntimeError("_orchestrate_dataset_backups")
    /\ datasets = << >>
    /\ listing # << >>

----------------------------------------------------------------------------
(* Properties of ZFSManager.create_snapshot and destroy_snapshot *)

\* the status the pre-check probe of the current call came back with
PrecheckCode == calls[2].code

\* the current call repeats the previous one, which returned normally
RepeatsSuccessfulCall(op) ==
    /\ zpc # "idle"
    /\ zop.op = op
    /\ prev.zop = zop
    /\ prev.res = NoExc

C10_DestroySnapshotIdempotent ==
    /\ (zop.op = "destroy_snapshot" /\ zpc = "return"
          /\ ZName \notin snaps0 /\ PrecheckCode # 2)
       => /\ zres = NoExc
          /\ Count(calls, "cmd", "zfs destroy") = 0
          /\ snaps = snaps0
    /\ (RepeatsSuccessfulCall("destroy_snapshot") /\ zpc = "return")
       => /\ Count(prev.calls, "cmd", "zfs destroy")
               + Count(calls, "cmd", "zfs destroy") <= 1
          /\ PrecheckCode # 2 => zres = NoExc

C10_Witness ==
    /\ RepeatsSuccessfulCall("destroy_snapshot")
    /\ Count(prev.calls, "cmd", "zfs destroy") = 1
    /\ zpc = "return"
    /\ zres = NoExc
    /\ Count(calls, "cmd", "zfs destroy") = 0

----------------------------------------------------------------------------
(* Claims C11..C20 *)

\* the mutating commands of the ZFSManager methods, and their positions in
\* the trace of the call in progress
ZfsMutatingCommands == {"zfs create", "zfs snapshot", "zfs destroy"}

ZfsMutations ==
    {i \in 1..Len(calls) : calls[i].ev = "cmd" /\ calls[i].name \in ZfsMutatingCommands}

\* the last entry of the trace is the method's probe with this exit status
LastIsProbe(code) ==
    /\ calls[Len(calls)].ev = "cmd"
    /\ calls[Len(calls)].name = ZProbeName
    /\ calls[Len(calls)].arg = ZName
    /\ calls[Len(calls)].code = code

\* C11: create_dataset and create_snapshot return normally only when the
\* last thing they did was a probe that found the object, destroy_snapshot
\* only when it was a probe that did not find it; a mutating command that
\* succeeded and is followed by a probe saying the contrary ends in the
\* method's RuntimeError; no call issues its mutating command twice.
C11_ReturnOnlyAfterConfirmingProbe ==
    zpc = "return" =>
        /\ Cardinality(ZfsMutations) <= 1
        /\ (zres = NoExc /\ zop.op \in {"create_dataset", "create_snapshot"})
              => LastIsProbe(0)
        /\ (zres = NoExc /\ zop.op = "destroy_snapshot") => LastIsProbe(1)
        /\ \A i \in ZfsMutations :
              (/\ calls[i].code = 0
               /\ i < Len(calls)
               /\ calls[i + 1].code = (IF zop.op = "destroy_snapshot" THEN 0 ELSE 1))
              => /\ zres = RuntimeError(zop.op)
                 /\ i + 1 = Len(calls)

C11_Witness ==
    /\ zpc = "return"
    /\ zop.op = "create_dataset"
    /\ zres = RuntimeError("create_dataset")
    /\ Len(calls) = 4
    /\ calls[3] = Cmd("zfs create", ZName, 0)
    /\ calls[4] = Cmd("zfs list fs", ZName, 1)

\* the archive tool behaved well during the call with this trace: no probe
\* came back with a fault and no init command failed
WellBehavedLog(log) ==
    \A i \in 1..Len(log) :
        /\ (log[i].ev = "cmd" /\ log[i].name = "borg info") => log[i].code \in {0, 2}
        /\ (log[i].ev = "cmd" /\ log[i].name = "borg init") => log[i].code = 0

\* an init command issued during the call did create the repository
\* (`after': the repositories that existed when the call ended)
InitEffective(log, repo_path, after) ==
    Count(log, "cmd", "borg init") > 0 => repo_path \in after

\* the call in progress invokes the method the previous call invoked, on the
\* same repository
RepeatsBorgCall(op) ==
    /\ bop.op = op
    /\ bprev.bop = bop

\* C12: with a well-behaved archive tool initialize_if_needed succeeds and
\* issues at most one init command, none when the repository existed at
\* entry; two consecutive calls on a repository both succeed and issue at
\* most one init command between them.
C12_InitializeIdempotent ==
    /\ (/\ bpc = "return"
        /\ bop.op = "initialize_if_needed"
        /\ WellBehavedLog(calls)
        /\ InitEffective(calls, bop.repo_path, repos))
       => /\ bres = NoExc
          /\ Count(calls, "cmd", "borg init") <= 1
          /\ bop.repo_path \in repos0 => Count(calls, "cmd", "borg init") = 0
    /\ (/\ bpc = "return"
        /\ RepeatsBorgCall("initialize_if_needed")
        /\ WellBehavedLog(bprev.calls)
        /\ InitEffective(bprev.calls, bop.repo_path, repos0)
        /\ WellBehavedLog(calls)
        /\ InitEffective(calls, bop.repo_path, repos))
       => /\ bprev.res = NoExc
          /\ bres = NoExc
          /\ Count(bprev.calls, "cmd", "borg init")
               + Count(calls, "cmd", "borg init") <= 1

C12_Witness ==
    /\ bpc = "return"
    /\ RepeatsBorgCall("initialize_if_needed")
    /\ bprev.res = NoExc
    /\ Count(bprev.calls, "cmd", "borg init") = 1
    /\ bres = NoExc
    /\ Count(calls, "cmd", "borg init") = 0

\* C13: initialize_if_needed issues `borg init' only right after a probe
\* that answered not-found, returns normally only when its last probe
\* answered found, and raises its RuntimeError when the probe after a
\* successful init command still answers not-found.
C13_InitOnlyAfterNotFound ==
    (bop.op = "initialize_if_needed" /\ bpc # "idle") =>
        /\ \A i \in Positions(calls, "cmd", "borg init") :
              /\ i > 1
              /\ calls[i - 1] = Cmd("borg info", bop.repo_path, 2)
        /\ (bpc = "return" /\ bres = NoExc)
              => calls[Len(calls)] = Cmd("borg info", bop.repo_path, 0)
        /\ bpc = "return" =>
              \A i \in Positions(calls, "cmd", "borg init") :
                  (/\ calls[i].code = 0
                   /\ i < Len(calls)
                   /\ calls[i + 1] = Cmd("borg info", bop.repo_path, 2))
                  => bres = RuntimeError("initialize_if_needed")

C13_Witness ==
    /\ bpc = "return"
    /\ bop.op = "initialize_if_needed"
    /\ bres = RuntimeError("initialize_if_needed")
    /\ Len(calls) = 4
    /\ calls[3] = Cmd("borg init", bop.repo_path, 0)
    /\ calls[4] = Cmd("borg info", bop.repo_path, 2)

\* the exit statuses the probes are examined on
ProbeExitCodes == {0, 1, 2}

\* C14: the three existence probes answer True on exit status 0, False on
\* the tool's not-found status (1 for zfs, 2 for borg) and re-raise on any
\* other status; in create_dataset and initialize_if_needed a probe that
\* re-raises ends the call with the probe's error before any create or
\* init command, a probe answering True ends it without a command, and a
\* probe answering False is followed by the command.
C14_ProbesAreTriState ==
    /\ \A code \in ProbeExitCodes :
          /\ dataset_exists(code)
                = (IF code = 0 THEN "True" ELSE IF code = 1 THEN "False" ELSE "raise")
          /\ _snapshot_exists(code)
                = (IF code = 0 THEN "True" ELSE IF code = 1 THEN "False" ELSE "raise")
          /\ _repository_exists(code)
                = (IF code = 0 THEN "True" ELSE IF code = 2 THEN "False" ELSE "raise")
    /\ (zop.op = "create_dataset" /\ zpc \notin {"idle", "precheck"}) =>
          /\ calls[2].code \notin {0, 1}
                => /\ zpc = "return"
                   /\ zres = ErrorReturnCode("zfs list")
                   /\ Count(calls, "cmd", "zfs create") = 0
          /\ calls[2].code = 0
                => /\ zpc = "return"
                   /\ zres = NoExc
                   /\ Count(calls, "cmd", "zfs create") = 0
          /\ (calls[2].code = 1 /\ Len(calls) > 2) => calls[3].name = "zfs create"
    /\ (bop.op = "initialize_if_needed" /\ bpc \notin {"idle", "init_probe"}) =>
          /\ calls[2].code \notin {0, 2}
                => /\ bpc = "return"
                   /\ bres = ErrorReturnCode("borg info")
                   /\ Count(calls, "cmd", "borg init") = 0
          /\ calls[2].code = 0
                => /\ bpc = "return"
                   /\ bres = NoExc
                   /\ Count(calls, "cmd", "borg init") = 0
          /\ (calls[2].code = 2 /\ Len(calls) > 2) => calls[3].name = "borg init"

C14_Witness ==
    /\ FirstCall
    /\ bop.op = "initialize_if_needed"
    /\ bpc = "return"
    /\ calls[2] = Cmd("borg info", bop.repo_path, 1)
    /\ bres = ErrorReturnCode("borg info")
    /\ Len(calls) = 2

\* the call in progress is export_recovery_key and has returned or raised
ExportEnded == bpc = "return" /\ bop.op = "export_recovery_key"

ExportSucceeded == \E i \in Positions(calls, "cmd", "borg key export") : calls[i].code = 0

VerificationSucceeded == \E i \in Positions(calls, "cmd", "borg list") : calls[i].code = 0

VerificationFailed == \E i \in Positions(calls, "cmd", "borg list") : calls[i].code # 0

\* C15: when export_recovery_key has returned or raised, a file lies at the
\* destination only if both the export command and the verification
\* listing succeeded; after a failed verification the file is gone and the
\* verification error is raised.
C15_KeyFileOnlyIfVerified ==
    ExportEnded =>
        /\ keyfile # "absent" => (ExportSucceeded /\ VerificationSucceeded)
        /\ VerificationFailed
              => (keyfile = "absent" /\ bres = ErrorReturnCode("borg list"))

\* C16: when the key-export command has failed, export_recovery_key ends
\* with no file at the destination, raises the export error and has not
\* run the verification listing.
C16_FailedExportLeavesNoFile ==
    (ExportEnded /\ Count(calls, "cmd", "borg key export") = 1 /\ ~ExportSucceeded) =>
        /\ keyfile = "absent"
        /\ bres = ErrorReturnCode("borg key export")
        /\ Count(calls, "cmd", "borg list") = 0

\* the repositories and archives the end-to-end run is said to produce
E2ERepos == {repo_base_path \o <<"/", "pool", "_", "svcs", "_", VolTokens[k]>> : k \in 1..E2EVols}

E2EArchiveName == archive_prefix \o <<"_", "auto-backup_T", "_", "T2">>

\* C17: a successful run over the parent pool/svcs with the mounted volumes
\* a and b on a fresh store ends with exactly the repositories
\* <root>/pool_svcs_a and <root>/pool_svcs_b, each holding exactly the
\* archive <prefix>_auto-backup_<T>_<T2>, and without the snapshot
\* pool/svcs@auto-backup_<T>.
C17_EndToEnd ==
    pc = "returned" =>
        /\ repos = E2ERepos
        /\ archives = {<<r, E2EArchiveName>> : r \in E2ERepos}
        /\ FullSnapshotName(parent_dataset, RunTag) \notin snaps

\* C18: two distinct enumerated volume names never resolve to the same
\* repository path.
C18_DistinctVolumesDistinctRepos ==
    (pc = "off" /\ idx = Len(datasets) /\ Len(calls) = Len(datasets)) =>
        \A i \in 1..Len(datasets), j \in 1..Len(datasets) :
            datasets[i].name # datasets[j].name => calls[i].arg # calls[j].arg

\* the `borg init' commands of a trace that address the repository
InitsFor(log, repo_path) ==
    {i \in Positions(log, "cmd", "borg init") : log[i].arg = repo_path}

\* no step takes a repository from present to absent
RepositoriesKept == [][repos \subseteq repos']_vars

C20_LeftSnapshotReported ==
    /\ pc = "raised" => (reported <=> CreateSnapshotReturned)
    /\ reported => pc = "raised"
    /\ snapshot_created => (CreateSnapshotReturned /\ pc # "returned")
    /\ (CreateSnapshotReturned /\ pc \notin {"create_snapshot", "returned"})
          => snapshot_created

C20_Witness ==
    /\ pc = "raised"
    /\ reported
    /\ snapshot_created
    /\ CreateSnapshotReturned
    /\ exc = ErrorReturnCode("borg create")
    /\ FullSnapshotName(parent_dataset, snapshot_tag) \in snaps

----------------------------------------------------------------------------
(* The two entry points of the backup: backup_manager.py run as a script,
   and `orchestrator.py backup-all' *)

\* os.getenv(var) is truthy: the variable is set to a non-empty value
getenv(env, var) == env[var] = "set"

\* hasattr(config, var.lower()): the variable is in os.environ, whatever
\* its value
hasattr(env, var) == env[var] # "unset"

\* Config.from_env, lines 95-101: no required variable is missing
from_env(env) == \A var \in BackupRequired : getenv(env, var)

\* orchestrator.Config._validate_required_vars, lines 91-96
_validate_required_vars(env) == \A var \in MasterRequired : hasattr(env, var)

\* ZFSManager.__init__, lines 114-123: an empty parent dataset is a ValueError
ZFSManager(env) == getenv(env, "ZFS_PARENT_DATASET")

\* DockerComposeManager.__init__ without argument, lines 51-74
DockerComposeManager(env) == getenv(env, "SERVICES_DIR")

\* StorageManager.__init__, lines 54-99: the definitions must be non-blank
\* and the three uids must convert with int()
StorageManager(env) == \A var \in StorageRequired : getenv(env, var)

\* BackupOrchestrator.__init__, lines 120-126
BackupOrchestrator(env) == ZFSManager(env) /\ DockerComposeManager(env)

\* MasterOrchestrator.__init__, lines 112-118
MasterOrchestrator(env) ==
    ZFSManager(env) /\ DockerComposeManager(env) /\ StorageManager(env)

main_exit_status_zero(raised) == 0

\* backup_manager.main, lines 290-295, and orchestrator.main, lines 503-535:
\* status 1 from the except block, 0 otherwise
main_exit_status(raised) == IF raised THEN 1 ELSE 0

\* sys.exit(1), or an exception nothing catches, ends the process
Exit1 ==
    /\ exit_status' = 1
    /\ pc' = "exited"

\* backup_manager.main, lines 285-290, up to the call of backup_all
MainBackupManager ==
    /\ entry = "backup_manager"
    /\ pc = "main"
    /\ IF from_env(environ) /\ BackupOrchestrator(environ)
       THEN /\ pc' = "start"
            /\ exit_status' = exit_status
       ELSE Exit1
    /\ UNCHANGED <<envVars, snaps, calls, zfsVars, prev, snapshot_tag, snapshot_created,
                   exc, datasets, idx, reported, borgVars, entry, environ, borg_env,
                   mountstate, now, base_env, managers,
                   success_count, fail_count>>

\* orchestrator.main, lines 411-505, with the command backup-all, up to the
\* call of MasterOrchestrator.backup_all
MainOrchestrator ==
    /\ entry = "orchestrator"
    /\ pc = "main"
    /\ IF _validate_required_vars(environ) /\ MasterOrchestrator(environ)
       THEN /\ pc' = "master_stop"
            /\ exit_status' = exit_status
       ELSE Exit1
    /\ UNCHANGED <<envVars, snaps, calls, zfsVars, prev, snapshot_tag, snapshot_created,
                   exc, datasets, idx, reported, borgVars, entry, environ, borg_env,
                   mountstate, now, base_env, managers,
                   success_count, fail_count>>

\* MasterOrchestrator.backup_all, line 142: self.docker.stop_all()
MasterStopAll ==
    /\ pc = "master_stop"
    /\ \E code \in PlainExitCodes :
         /\ calls' = calls \o <<Call("stop_all", << >>), Cmd("docker stop", << >>, code)>>
         /\ IF code = 0
            THEN /\ services' = "stopped"
                 /\ pc' = "master_config"
                 /\ exc' = exc
            ELSE /\ services' = "partial"
                 /\ pc' = "raised"
                 /\ exc' = ErrorReturnCode("docker stop")
    /\ UNCHANGED <<filesystems, listing, repos, archives, snaps, zfsVars, prev,
                   snapshot_tag, snapshot_created, datasets, idx, reported, borgVars,
                   procVars>>

\* MasterOrchestrator.backup_all, lines 144-147, up to the call of
\* BackupOrchestrator.backup_all
MasterBackupConfig ==
    /\ pc = "master_config"
    /\ IF from_env(environ) /\ BackupOrchestrator(environ)
       THEN /\ pc' = "start"
            /\ exit_status' = exit_status
       ELSE Exit1
    /\ UNCHANGED <<envVars, snaps, calls, zfsVars, prev, snapshot_tag, snapshot_created,
                   exc, datasets, idx, reported, borgVars, entry, environ, borg_env,
                   mountstate, now, base_env, managers,
                   success_count, fail_count>>

\* backup_all has returned to main or raised into its except block
MainExit ==
    /\ entry # "none"
    /\ exit_status = -1
    /\ pc \in {"returned", "raised"}
    /\ exit_status' = main_exit_status(pc = "raised")
    /\ UNCHANGED <<envVars, snaps, calls, zfsVars, prev, pipeVars, borgVars, entry,
                   environ, borg_env, mountstate, now, base_env, managers,
                   success_count, fail_count>>

\* the environment file as written, or with one variable absent or empty
MainEnvirons ==
    {FullEnviron} \cup
    {[FullEnviron EXCEPT ![var] = x] : var \in EnvNames, x \in {"unset", "empty"}}

InitMain ==
    /\ filesystems = {parent_dataset} \cup {ChildDataset(k) : k \in 1..MaxVols}
    /\ snaps = {}
    /\ \E kinds \in [1..MaxVols -> LineKinds] :
         listing = [k \in 1..MaxVols |-> ListingLine(k, kinds[k])]
    /\ repos = {}
    /\ archives = {}
    /\ services = "running"
    /\ calls = << >>
    /\ zpc = "idle"
    /\ zop = NoOp
    /\ zres = NoExc
    /\ snaps0 = {}
    /\ prev = NoPrev
    /\ pc = "main"
    /\ snapshot_tag = RunTag
    /\ snapshot_created = FALSE
    /\ exc = NoExc
    /\ datasets = << >>
    /\ idx = 0
    /\ reported = FALSE
    /\ BorgOff
    /\ entry \in {"backup_manager", "orchestrator"}
    /\ environ \in MainEnvirons
    /\ exit_status = -1
    /\ borg_env = DefaultRsh
    /\ mountstate = << >>
    /\ now = DefaultNow
    /\ ManagersOff

NextMain ==
    \/ MainBackupManager
    \/ MainOrchestrator
    \/ MasterStopAll
    \/ MasterBackupConfig
    \/ MainExit
    \/ Next

SpecMain == InitMain /\ [][NextMain]_vars

----------------------------------------------------------------------------
(* Claims C21..C30 *)

\* C21: the process exits with status 0 exactly when backup_all returned
\* without an exception, and with status 1 when any step raised an error
\* nothing recovered from (also a failure after the snapshot was created)
\* or when start-up ended the process.
C21_ExitStatus ==
    /\ exit_status \in {-1, 0, 1}
    /\ exit_status = 0 => (pc = "returned" /\ exc = NoExc)
    /\ (exit_status # -1 /\ pc = "returned") => exit_status = 0
    /\ (exit_status # -1 /\ pc = "raised") => (exit_status = 1 /\ exc # NoExc)
    /\ pc = "exited" => exit_status = 1

C21_Witness ==
    /\ exit_status = 1
    /\ pc = "raised"
    /\ snapshot_created
    /\ exc = ErrorReturnCode("borg prune")

\* C23: when a value the backup run requires is missing, the process ends
\* with a non-zero status before any service group has been stopped and
\* before any snapshot or repository operation.
C23_MissingConfigFailsBeforeAnyStep ==
    (entry # "none" /\ ~from_env(environ))
        => /\ calls = << >>
           /\ services = "running"
           /\ exit_status \in {-1, 1}

\* the steps backup_all runs once, and the commands they wrap
OncePerRun ==
    {"stop_all", "docker stop", "create_snapshot", "zfs snapshot", "up_all",
     "docker up", "destroy_snapshot", "zfs destroy"}

\* the steps run once for every volume, and the commands they wrap
OncePerVolume ==
    {"initialize_if_needed", "borg init", "create_archive", "borg create",
     "prune_archives", "borg prune", "check_repository", "borg check"}

\* positions of the trace where `name' addresses the repository of volume k
VolumePositions(name, k) ==
    {p \in 1..Len(calls) :
        /\ calls[p].name = name
        /\ EntryRepo(calls[p]) = _get_repo_path(datasets[k])}

\* C22: failures are never retried: in one run of backup_all, stop_all, the
\* snapshot-creation command, up_all and the snapshot-destroy command are
\* each invoked at most once, and for each volume the init, create-archive,
\* prune and check commands are each invoked at most once, whatever fails.
C22_NoRetry ==
    /\ \A name \in OncePerRun :
         Cardinality({p \in 1..Len(calls) : calls[p].name = name}) <= 1
    /\ \A name \in OncePerVolume : \A k \in 1..Len(datasets) :
         Cardinality(VolumePositions(name, k)) <= 1

C22_Witness ==
    /\ pc = "raised"
    /\ Len(datasets) >= 2
    /\ exc = ErrorReturnCode("borg create")
    /\ \E p \in 1..Len(calls) :
         /\ calls[p].name = "borg create"
         /\ calls[p].code # 0
         /\ EntryRepo(calls[p]) = _get_repo_path(datasets[2])
    /\ calls[Len(calls)].name = "borg create"

\* the arguments of the create_archive call for a volume: repository,
\* archive name and source path
CreateArchiveArgs(dataset) ==
    _get_repo_path(dataset) \o <<"::">>
        \o _build_archive_name(archive_prefix, snapshot_tag) \o <<" ">>
        \o dataset.mount_point \o <<"/", ".zfs", "/", "snapshot", "/">> \o snapshot_tag

\* C24: for each volume, in enumeration order, the pipeline initializes the
\* repository if needed, then creates the archive, then prunes: create is
\* issued only right after a probe found the repository present, prune only
\* right after create succeeded, and the first operation on a volume only
\* right after the prune of the previous volume succeeded (for the first
\* volume, right after the enumeration).  The archive source path is
\* <volume mount>/.zfs/snapshot/<run tag>.
C24_PerVolumeOrder ==
    \A p \in 1..Len(calls) :
        LET e == calls[p]
            k == VolumeOf(e)
        IN /\ e.name = "initialize_if_needed"
                => /\ \E j \in 1..Len(datasets) : e.arg = _get_repo_path(datasets[j])
                   /\ p > 1
                   /\ calls[p - 1] = IF k = 1
                                     THEN Cmd("zfs list -r", parent_dataset, 0)
                                     ELSE Cmd("borg prune", _get_repo_path(datasets[k - 1]), 0)
           /\ e.name = "create_archive"
                => /\ \E j \in 1..Len(datasets) : e.arg = CreateArchiveArgs(datasets[j])
                   /\ calls[p - 1] = Cmd("borg info", _get_repo_path(datasets[k]), 0)
                   /\ \E q \in 1..(p - 1) :
                        calls[q] = Call("initialize_if_needed", _get_repo_path(datasets[k]))
           /\ e.name = "prune_archives"
                => /\ \E j \in 1..Len(datasets) : e.arg = _get_repo_path(datasets[j])
                   /\ p > 2
                   /\ calls[p - 1].name = "borg create"
                   /\ calls[p - 1].code = 0
                   /\ calls[p - 2] = Call("create_archive", CreateArchiveArgs(datasets[k]))

C24_Witness ==
    /\ pc = "check"
    /\ Len(datasets) >= 2
    /\ \E p \in 1..Len(calls) :
         /\ calls[p] = Call("create_archive", CreateArchiveArgs(datasets[2]))
         /\ calls[p + 1].code = 0
         /\ calls[p - 2] = Cmd("borg init", _get_repo_path(datasets[2]), 0)

\* commands whose failure ends the run: init, create-archive, prune, check
\* and snapshot destruction
WrappedCommands == {"borg init", "borg create", "borg prune", "borg check", "zfs destroy"}

\* positions of the trace where one of these commands failed
FailedWrapped ==
    {p \in 1..Len(calls) :
        /\ calls[p].ev = "cmd"
        /\ calls[p].name \in WrappedCommands
        /\ calls[p].code # 0}

\* C28: a failure of a wrapped command is re-raised unchanged through every
\* layer: when an init, create-archive, prune, check or destroy command
\* failed, nothing runs after it, the run does not return normally, and the
\* exception backup_all raises is the error of that very command.
C28_ReraisedUnchanged ==
    \A p \in FailedWrapped :
        /\ p = Len(calls)
        /\ pc \in {"destroy_snapshot", "handler", "raised"}
        /\ pc \in {"handler", "raised"} => exc = ErrorReturnCode(calls[p].name)

C28_Witness ==
    /\ pc = "raised"
    /\ FailedWrapped # {}
    /\ exc = ErrorReturnCode("borg init")

\* C29: create_dataset is idempotent: when its probe finds the volume it
\* returns normally without a create command, and create_dataset(N) right
\* after a successful create_dataset(N) succeeds too (whenever its probe
\* answers), the two calls together issuing at most one create command.
C29_CreateDatasetIdempotent ==
    /\ (zop.op = "create_dataset" /\ zpc = "return" /\ PrecheckCode = 0)
       => /\ zres = NoExc
          /\ Count(calls, "cmd", "zfs create") = 0
          /\ ZName \in filesystems
    /\ (RepeatsSuccessfulCall("create_dataset") /\ zpc = "return")
       => /\ Count(prev.calls, "cmd", "zfs create")
               + Count(calls, "cmd", "zfs create") <= 1
          /\ PrecheckCode # 2 => zres = NoExc

C29_Witness ==
    /\ RepeatsSuccessfulCall("create_dataset")
    /\ Count(prev.calls, "cmd", "zfs create") = 1
    /\ zpc = "return"
    /\ zres = NoExc
    /\ Count(calls, "cmd", "zfs create") = 0

\* the steps of backup_all that follow the restart, and the commands they wrap
AfterRestart ==
    OncePerVolume \cup {"get_datasets", "zfs list -r", "borg info"}

\* positions of the trace before p
Before(p) == 1..(p - 1)

\* C30: the snapshot-creation command is issued only after stop_all has
\* returned and before up_all is invoked; every enumeration, repository
\* initialization, archive creation, prune and check is issued only after
\* up_all has returned successfully; no archive is created while the
\* services are stopped, and none if the restart failed.
C30_ConsistencyWindow ==
    /\ \A p \in 1..Len(calls) :
         /\ calls[p].name \in {"create_snapshot", "zfs snapshot"}
              => /\ \E q \in Before(p) : calls[q] = Cmd("docker stop", << >>, 0)
                 /\ \A q \in Before(p) : calls[q].name # "up_all"
         /\ calls[p].name \in AfterRestart
              => \E q \in Before(p) : calls[q] = Cmd("docker up", << >>, 0)
    /\ pc \in {"snapshot", "create_snapshot"} => services = "stopped"
    /\ pc \in {"enumerate", "init_probe", "init_cmd", "init_verify", "create", "prune",
               "check"} => services = "running"
    /\ archives # {} => \E q \in 1..Len(calls) : calls[q] = Cmd("docker up", << >>, 0)
    /\ (\E q \in 1..Len(calls) : calls[q].name = "docker up" /\ calls[q].code # 0)
          => /\ archives = {}
             /\ \A q \in 1..Len(calls) : calls[q].name \notin AfterRestart

C30_Witness ==
    /\ pc = "raised"
    /\ exc = ErrorReturnCode("docker up")
    /\ snapshot_created
    /\ archives = {}
    /\ services = "partial"

----------------------------------------------------------------------------
(* check_repository and the environment of one BorgBackupRepoManager *)

\* longest remote-shell specification, in tokens
MaxRshLen == 3

\* longest sequence of operations on the instance
MaxCheckOps == 3

\* pieces of a BORG_RSH value; the text "ssh " occurs in a specification
\* exactly where the token "ssh " does
RshTokens == {"ssh ", "ssh", "/usr/bin/", "-i key "}

RshSpecs == UNION {[1..n -> RshTokens] : n \in 1..MaxRshLen}

Range(s) == {s[i] : i \in DOMAIN s}

\* str.replace(old, new, 1): the first occurrence only
ReplaceFirst(s, old, new) ==
    IF \E i \in 1..Len(s) : s[i] = old
    THEN LET i == CHOOSE j \in 1..Len(s) :
                     s[j] = old /\ \A h \in 1..(j - 1) : s[h] # old
         IN SubSeq(s, 1, i - 1) \o new \o SubSeq(s, i + 1, Len(s))
    ELSE s

\* check_repository, lines 361-367
check_args(verify_data) ==
    <<"check", "--verbose", "--progress">>
        \o (IF verify_data THEN <<"--verify-data">> ELSE << >>)

\* lines 371-376: BORG_RSH with the keep-alive option
modified_rsh(original_rsh) ==
    ReplaceFirst(original_rsh, "ssh ", <<"ssh ", "-o ServerAliveInterval=60 ">>)

\* mutant: the instance's own dictionary is modified
local_env_aliased(env) == [self |-> modified_rsh(env), local |-> modified_rsh(env)]

\* lines 369-379: local_env is a copy of self.borg_env; the keep-alive goes
\* into the copy
local_env(env) == [self |-> env, local |-> modified_rsh(env)]

\* a command as the tool sees it: its BORG_RSH, then its arguments
WithRsh(rsh, args) == <<"BORG_RSH=">> \o rsh \o <<";">> \o args

\* the other methods run self.borg, baked with self.borg_env (line 65)
OtherBorgArgs == {<<"create">>, <<"prune">>, <<"list">>}

InitCheck ==
    /\ filesystems = {}
    /\ snaps = {}
    /\ listing = << >>
    /\ repos = {}
    /\ archives = {}
    /\ services = "running"
    /\ calls = << >>
    /\ zpc = "idle"
    /\ zop = NoOp
    /\ zres = NoExc
    /\ snaps0 = {}
    /\ prev = NoPrev
    /\ PipelineOff
    /\ BorgOff
    /\ entry = "none"
    /\ environ = FullEnviron
    /\ exit_status = -1
    /\ borg_env \in RshSpecs
    /\ mountstate = << >>
    /\ now = DefaultNow
    /\ ManagersOff

\* check_repository(verify_data), lines 354-392
CheckRepository ==
    /\ Len(calls) < 2 * MaxCheckOps
    /\ \E verify_data \in BOOLEAN, code \in PlainExitCodes :
         LET env == local_env(borg_env)
         IN /\ calls' = calls \o
                  <<Call("check_repository", IF verify_data THEN <<"verify_data">>
                                             ELSE << >>),
                    Cmd("borg check", WithRsh(env.local, check_args(verify_data)), code)>>
            /\ borg_env' = env.self
    /\ UNCHANGED <<envVars, snaps, zfsVars, prev, pipeVars, borgVars, entry, environ,
                   exit_status, mountstate, now, base_env, managers,
                   success_count, fail_count>>

\* create_archive, prune_archives or list_archives on the same instance
OtherBorgOperation ==
    /\ Len(calls) < 2 * MaxCheckOps
    /\ \E args \in OtherBorgArgs :
         calls' = calls \o <<Call(args[1], << >>),
                             Cmd("borg", WithRsh(borg_env, args), 0)>>
    /\ UNCHANGED <<envVars, snaps, zfsVars, prev, pipeVars, borgVars, procVars>>

NextCheck == CheckRepository \/ OtherBorgOperation

SpecCheck == InitCheck /\ [][NextCheck]_vars

\* C25: check_repository runs a metadata-only check unless verify_data is
\* true, with a remote-shell specification in which the keep-alive option
\* follows the first "ssh " (and only the first); the credentials stored in
\* the instance never change, so every other operation on the instance,
\* before and after a check, runs with the original specification.
C25_CheckUsesModifiedCopy ==
    /\ [](\A p \in 1..Len(calls) :
            /\ calls[p].name = "borg check"
                 => /\ calls[p].arg
                         = WithRsh(modified_rsh(borg_env),
                                   check_args(calls[p - 1].arg = <<"verify_data">>))
                    /\ ("--verify-data" \in Range(calls[p].arg))
                          <=> (calls[p - 1].arg = <<"verify_data">>)
                    /\ Cardinality({i \in 1..Len(calls[p].arg) :
                                       calls[p].arg[i] = "-o ServerAliveInterval=60 "})
                          = (IF "ssh " \in Range(borg_env) THEN 1 ELSE 0)
            /\ calls[p].name = "borg"
                 => \E args \in OtherBorgArgs : calls[p].arg = WithRsh(borg_env, args))
    /\ [][borg_env' = borg_env]_vars

C25_Witness ==
    /\ Len(calls) = 6
    /\ calls[2].name = "borg"
    /\ calls[4].name = "borg check"
    /\ calls[6].name = "borg"
    /\ calls[6].arg = WithRsh(borg_env, <<"create">>)
    /\ borg_env = <<"/usr/bin/", "ssh ", "ssh ">>
    /\ calls[4].arg = <<"BORG_RSH=", "/usr/bin/", "ssh ", "-o ServerAliveInterval=60 ",
                        "ssh ", ";", "check", "--verbose", "--progress", "--verify-data">>

----------------------------------------------------------------------------
(* get_datasets against the mount state of the storage layer *)

\* get_datasets calls made on one manager
MaxEnumCalls == 2

\* what the storage layer holds for a filesystem: mounted at its mount
\* point; mount point set but not mounted (canmount=noauto, unmounted by
\* hand, key not loaded); mountpoint=none; mountpoint=legacy and not
\* mounted; mounted, with a line the listing garbles; no mount point
\* property at all
MountStates == {"mounted", "noauto", "none", "legacy", "garbled", "dash"}

\* the line `zfs list -H -o name,mountpoint' prints for filesystem k: the
\* value of the mountpoint property, whether or not it is mounted
ZfsListLine(k, state) ==
    IF state \in {"mounted", "noauto"} THEN <<ChildDataset(k), MountPoint(k)>>
    ELSE IF state = "none" THEN <<ChildDataset(k), <<"none">>>>
    ELSE IF state = "legacy" THEN <<ChildDataset(k), <<"legacy">>>>
    ELSE IF state = "dash" THEN <<ChildDataset(k), <<"-">>>>
    ELSE <<ChildDataset(k)>>

InitEnum ==
    /\ filesystems = {parent_dataset} \cup {ChildDataset(k) : k \in 1..MaxVols}
    /\ snaps = {}
    /\ mountstate \in [1..MaxVols -> MountStates]
    /\ listing = [k \in 1..MaxVols |-> ZfsListLine(k, mountstate[k])]
    /\ repos = {}
    /\ archives = {}
    /\ services = "running"
    /\ calls = << >>
    /\ zpc = "idle"
    /\ zop = NoOp
    /\ zres = NoExc
    /\ snaps0 = {}
    /\ prev = NoPrev
    /\ PipelineOff
    /\ BorgOff
    /\ entry = "none"
    /\ environ = FullEnviron
    /\ exit_status = -1
    /\ borg_env = DefaultRsh
    /\ now = DefaultNow
    /\ ManagersOff

\* list(manager.get_datasets()), lines 304-336, the listing succeeding
EnumGetDatasets ==
    /\ Len(calls) < 2 * MaxEnumCalls
    /\ calls' = calls \o <<Call("get_datasets", parent_dataset),
                           Cmd("zfs list -r", parent_dataset, 0)>>
    /\ datasets' = get_datasets(listing)
    /\ UNCHANGED <<envVars, snaps, zfsVars, prev, pc, snapshot_tag, snapshot_created,
                   exc, idx, reported, borgVars, procVars>>

\* a filesystem is mounted or unmounted between two calls
EnumMount ==
    /\ Len(calls) < 2 * MaxEnumCalls
    /\ \E k \in 1..MaxVols :
         /\ mountstate[k] \in {"mounted", "noauto"}
         /\ mountstate' = [mountstate EXCEPT
                              ![k] = IF @ = "mounted" THEN "noauto" ELSE "mounted"]
    /\ listing' = [k \in 1..MaxVols |-> ZfsListLine(k, mountstate'[k])]
    /\ UNCHANGED <<filesystems, repos, archives, services, snaps, calls, zfsVars, prev,
                   pipeVars, borgVars, entry, environ, exit_status, borg_env, now,
                   base_env, managers, success_count, fail_count>>

NextEnum == EnumGetDatasets \/ EnumMount

SpecEnum == InitEnum /\ [][NextEnum]_vars

\* the volumes of the listing that have an active mount point, in listing
\* order
RECURSIVE ActiveVolumes(_)
ActiveVolumes(k) ==
    IF k = 0 THEN << >>
    ELSE ActiveVolumes(k - 1)
           \o (IF mountstate[k] = "mounted"
               THEN <<[name |-> ChildDataset(k), mount_point |-> MountPoint(k)]>>
               ELSE << >>)

\* C26: get_datasets yields, in listing order, exactly one volume for every
\* line that parses into a name and a mount point and whose volume has an
\* active mount point; entries without an active mount point and malformed
\* lines are skipped; every call enumerates from the beginning.
C26_YieldsMountedVolumes ==
    [][calls' # calls => datasets' = ActiveVolumes(MaxVols)]_vars

----------------------------------------------------------------------------
(* Successive backup runs under the wall clock *)

\* backup runs in a row
MaxRuns == 2

\* the volume of the successive runs is the first one; the others are not
\* listed as mounted
InitRuns ==
    /\ filesystems = {parent_dataset} \cup {ChildDataset(k) : k \in 1..MaxVols}
    /\ snaps = {}
    /\ listing = [k \in 1..MaxVols |->
                    ListingLine(k, IF k = 1 THEN "mounted" ELSE "unmounted")]
    /\ repos \in SUBSET {_get_repo_path([name |-> ChildDataset(1)])}
    /\ archives = {}
    /\ services = "running"
    /\ calls = << >>
    /\ zpc = "idle"
    /\ zop = NoOp
    /\ zres = NoExc
    /\ snaps0 = {}
    /\ prev = NoPrev
    /\ pc = "start"
    /\ now \in 1..MaxClock
    /\ snapshot_tag = _generate_snapshot_tag(now)
    /\ snapshot_created = FALSE
    /\ exc = NoExc
    /\ datasets = << >>
    /\ idx = 0
    /\ reported = FALSE
    /\ BorgOff
    /\ entry = "none"
    /\ environ = FullEnviron
    /\ exit_status = -1
    /\ borg_env = DefaultRsh
    /\ mountstate = << >>
    /\ ManagersOff

\* wall-clock time passes between the start of a run and the reading of
\* the clock by _build_archive_name
ClockTick ==
    /\ pc = "create"
    /\ now < MaxClock
    /\ now' = now + 1
    /\ UNCHANGED <<envVars, snaps, calls, zfsVars, prev, pipeVars, borgVars, entry,
                   environ, exit_status, borg_env, mountstate, base_env, managers,
                   success_count, fail_count>>

\* the next run: BackupOrchestrator.__init__ (120-126) generates its tag,
\* then backup_all starts.  It starts at another reading of the clock: a
\* later one, or an earlier one when the local time was set back in between
\* (datetime.now() is naive local time: the hour at the end of daylight
\* saving time repeats; a clock correction)
RunAgain ==
    /\ pc \in {"returned", "raised"}
    /\ Count(calls, "call", "stop_all") < MaxRuns
    /\ pc' = "start"
    /\ \E t \in (1..MaxClock) \ {now} :
         /\ now' = t
         /\ snapshot_tag' = _generate_snapshot_tag(t)
    /\ snapshot_created' = FALSE
    /\ exc' = NoExc
    /\ datasets' = << >>
    /\ idx' = 0
    /\ reported' = FALSE
    /\ UNCHANGED <<envVars, snaps, calls, zfsVars, prev, borgVars, entry, environ,
                   exit_status, borg_env, mountstate, base_env, managers,
                   success_count, fail_count>>

NextRuns == ClockTick \/ RunAgain \/ Next

SpecRuns == InitRuns /\ [][NextRuns]_vars

CreateArchiveCalls == Positions(calls, "call", "create_archive")

\* repository and archive name of a create_archive call
ArchiveTarget(e) ==
    SubSeq(e.arg, 1, (CHOOSE i \in 1..Len(e.arg) : e.arg[i] = " ") - 1)

\* the run a trace position belongs to
RunOf(p) == Cardinality({q \in 1..p : calls[q] = Call("stop_all", << >>)})

\* C27: archive names are unique per run per volume: over any sequence of
\* runs no two create-archive calls addressed to the same repository use
\* the same archive name, and within one run a repository receives only one
\* create-archive call.
C27_ArchiveNamesUnique ==
    \A p \in CreateArchiveCalls : \A q \in CreateArchiveCalls :
        p < q =>
            /\ ArchiveTarget(calls[p]) # ArchiveTarget(calls[q])
            /\ RunOf(p) = RunOf(q) => EntryRepo(calls[p]) # EntryRepo(calls[q])

----------------------------------------------------------------------------
(* Claims C31..C40 *)

StopRaised == \E p \in 1..Len(calls) : calls[p] = Cmd("docker stop", << >>, 1)

\* C31: when stop_all raises, backup_all issues no snapshot command, performs
\* no repository operation, changes no snapshot and re-raises the stop error;
\* a snapshot command is issued, and the set of snapshots changes, only in
\* runs where stop_all has returned.
C31_StopIsPrecondition ==
    /\ [](StopRaised =>
            /\ Failing
            /\ exc = ErrorReturnCode("docker stop")
            /\ Count(calls, "call", "create_snapshot") = 0
            /\ Count(calls, "cmd", "zfs snapshot") = 0
            /\ RepoOpPositions = {})
    /\ [](Count(calls, "cmd", "zfs snapshot") > 0 => StopReturned)
    /\ [][snaps' # snaps => StopReturned /\ ~StopRaised]_vars

C31_Witness ==
    /\ pc = "raised"
    /\ StopRaised
    /\ exc = ErrorReturnCode("docker stop")
    /\ services = "partial"

FailedChecks ==
    {p \in 1..Len(calls) :
        calls[p].ev = "cmd" /\ calls[p].name = "borg check" /\ calls[p].code # 0}

\* C32: when the integrity check of volume k fails, every enumerated volume
\* has been archived and pruned before it, nothing is attempted on any
\* repository afterwards (no check of volumes k+1..n), destroy_snapshot is
\* not invoked and the run's snapshot still exists, and backup_all raises the
\* check error.
C32_CheckFailureStopsTheRun ==
    /\ [](\A p \in FailedChecks :
            /\ Failing
            /\ exc = ErrorReturnCode("borg check")
            /\ idx = VolumeOf(calls[p])
            /\ \A j \in 1..Len(datasets) :
                  /\ ArchivedAndPrunedBefore(p, datasets[j])
                  /\ ArchiveOf(datasets[j]) \in archives
                  /\ j > idx =>
                        \A q \in Positions(calls, "call", "check_repository")
                                  \cup Positions(calls, "cmd", "borg check") :
                            calls[q].arg # _get_repo_path(datasets[j])
            /\ \A q \in RepoOpPositions : q <= p
            /\ Count(calls, "call", "destroy_snapshot") = 0
            /\ Count(calls, "cmd", "zfs destroy") = 0
            /\ RunSnapshot \in snaps)
    /\ [][(pc = "handler" /\ FailedChecks # {})
            => (pc' = "raised" /\ exc' = exc)]_vars

C32_Witness ==
    /\ pc = "raised"
    /\ Len(datasets) = 3
    /\ Len(CheckCalls) = 2
    /\ calls[Len(calls)] = Cmd("borg check", _get_repo_path(datasets[2]), 1)
    /\ exc = ErrorReturnCode("borg check")

\* trace positions of the run in progress (or just ended)
ThisRun ==
    LET starts == Positions(calls, "call", "stop_all")
    IN IF pc = "start" \/ starts = {} THEN {}
       ELSE (CHOOSE s \in starts : \A q \in starts : q <= s)..Len(calls)

\* the argument of create_archive for a volume under a tag and a timestamp
CreateArchiveArg(dataset, tag, stamp) ==
    _get_repo_path(dataset) \o <<"::">> \o archive_prefix \o <<"_">> \o tag
        \o <<"_", stamp>> \o <<" ">> \o _get_snapshot_path(dataset, tag)

\* the snapshot of the run was verified created at some position before p
\* of the run, and the run issued no destruction before p
LiveAt(run, p) ==
    /\ \E q \in run :
          /\ q + 3 < p
          /\ calls[q] = Call("create_snapshot", RunSnapshot)
          /\ calls[q + 1] = Cmd("zfs list", RunSnapshot, 1)
          /\ calls[q + 2] = Cmd("zfs snapshot", RunSnapshot, 0)
          /\ calls[q + 3] = Cmd("zfs list", RunSnapshot, 0)
    /\ \A q \in run :
          (q < p) => calls[q].name \notin {"destroy_snapshot", "zfs destroy"}

\* C33: within a run the tag never changes; the snapshot created, every
\* archive source path and archive name, and the snapshot destroyed are all
\* built from it; and whenever a create-archive command is issued the run's
\* snapshot has been verified created, has not been destroyed by the run,
\* and exists.
C33_OneTagLiveSnapshot ==
    /\ [](LET run == ThisRun IN \A p \in run :
            /\ calls[p].name \in {"create_snapshot", "zfs snapshot",
                                   "destroy_snapshot", "zfs destroy"}
                  => calls[p].arg = FullSnapshotName(parent_dataset, snapshot_tag)
            /\ (calls[p].ev = "call" /\ calls[p].name = "create_archive")
                  => \E k \in 1..Len(datasets), t \in 1..Len(TimeStamps) :
                        calls[p].arg
                          = CreateArchiveArg(datasets[k], snapshot_tag, TimeStamps[t])
            /\ calls[p].name \in {"create_archive", "borg create"} => LiveAt(run, p))
    /\ [][~(pc \in {"returned", "raised"} /\ pc' = "start")
            => snapshot_tag' = snapshot_tag]_vars
    /\ [][pc = "create" /\ pc' # "create"
            => snapshot_created /\ RunSnapshot \in snaps]_vars

\* the second run, under another tag than the first, is archiving after the
\* clock has moved on since its tag was generated
C33_Witness ==
    /\ Count(calls, "call", "stop_all") = 2
    /\ pc = "prune"
    /\ snapshot_tag # _generate_snapshot_tag(now)
    /\ \E p \in 1..Len(calls) :
          /\ calls[p].name = "zfs snapshot"
          /\ calls[p].arg # RunSnapshot

----------------------------------------------------------------------------
(* BorgBackupRepoManager instances built from one base environment *)

\* manager instances built from the base environment
MaxManagers == 2

\* longest trace of constructions and commands
MaxEnvCalls == 5

ValueError == [type |-> "ValueError", src |-> "BorgBackupRepoManager"]

\* a dictionary is a function on the keys it holds; "" is the empty tuple
EnvKeys == {"BORG_PASSPHRASE", "BORG_RSH", "BORG_REPO"}

EnvValues(key) ==
    IF key = "BORG_PASSPHRASE" THEN {<< >>, <<"secret">>}
    ELSE IF key = "BORG_RSH" THEN {<< >>, DefaultRsh}
    ELSE {<<"elsewhere">>}

\* base environments: os.environ plus, or only, the two credentials
\* (backup_manager.py 63-69, orchestrator.py 98-103); either may be absent
\* or empty, and os.environ may hold a BORG_REPO of its own
BaseEnvs ==
    UNION {{d \in [keys -> UNION {EnvValues(k) : k \in EnvKeys}] :
               \A k \in keys : d[k] \in EnvValues(k)} : keys \in SUBSET EnvKeys}

\* d[key] = value on a dictionary
SetItem(d, key, value) ==
    [k \in DOMAIN d \cup {key} |-> IF k = key THEN value ELSE d[k]]

\* lines 50-51: not base_env.get(var)
missing_vars(base) ==
    {var \in {"BORG_PASSPHRASE", "BORG_RSH"} :
        var \notin DOMAIN base \/ base[var] = << >>}

\* mutant: the instance keeps the dictionary it was given
BorgBackupRepoManager_aliased(repo_path, base) ==
    IF missing_vars(base) # {}
    THEN [raised |-> ValueError, base |-> base, self |-> << >>]
    ELSE [raised |-> NoExc,
          base |-> SetItem(base, "BORG_REPO", repo_path),
          self |-> [repo_path |-> repo_path,
                    borg_env |-> SetItem(base, "BORG_REPO", repo_path)]]

\* BorgBackupRepoManager.__init__, lines 40-68: validation, then a copy of
\* base_env that receives BORG_REPO
BorgBackupRepoManager(repo_path, base) ==
    IF missing_vars(base) # {}
    THEN [raised |-> ValueError, base |-> base, self |-> << >>]
    ELSE [raised |-> NoExc,
          base |-> base,
          self |-> [repo_path |-> repo_path,
                    borg_env |-> SetItem(base, "BORG_REPO", repo_path)]]

\* commands of an instance
ManagerCommands == {"info", "init", "create", "prune", "list", "delete",
                    "key export", "verify list", "check"}

\* the environment a command runs with: self.borg_env as baked at line 65,
\* a copy with BORG_KEY_FILE for the verification of an exported key
\* (225-230), a copy with the keep-alive option for check (369-379)
command_env(self_env, command) ==
    IF command = "verify list"
    THEN SetItem(self_env, "BORG_KEY_FILE", <<"key">>)
    ELSE IF command = "check"
    THEN SetItem(self_env, "BORG_RSH", local_env(self_env["BORG_RSH"]).local)
    ELSE self_env

\* self.borg_env after a command
env_after(self_env, command) ==
    IF command = "check"
    THEN SetItem(self_env, "BORG_RSH", local_env(self_env["BORG_RSH"]).self)
    ELSE self_env

ManagerRepoPaths ==
    {_get_repo_path([name |-> ChildDataset(k)]) : k \in 1..MaxManagers}

InitManagers ==
    /\ filesystems = {}
    /\ snaps = {}
    /\ listing = << >>
    /\ repos = {}
    /\ archives = {}
    /\ services = "running"
    /\ calls = << >>
    /\ zpc = "idle"
    /\ zop = NoOp
    /\ zres = NoExc
    /\ snaps0 = {}
    /\ prev = NoPrev
    /\ PipelineOff
    /\ BorgOff
    /\ entry = "none"
    /\ environ = FullEnviron
    /\ exit_status = -1
    /\ borg_env = DefaultRsh
    /\ mountstate = << >>
    /\ now = DefaultNow
    /\ base_env \in BaseEnvs
    /\ managers = << >>
    /\ success_count = 0
    /\ fail_count = 0

\* BorgBackupRepoManager(repo_path, self.config.base_borg_env)
\* (backup_manager.py 237 and 256, orchestrator.py 271 and 277)
NewManager ==
    /\ Len(managers) < MaxManagers
    /\ Len(calls) < MaxEnvCalls
    /\ \E repo_path \in ManagerRepoPaths :
         LET m == BorgBackupRepoManager(repo_path, base_env)
         IN /\ calls' = Append(calls, Call("BorgBackupRepoManager", repo_path))
            /\ bres' = m.raised
            /\ base_env' = m.base
            /\ managers' = IF m.raised = NoExc THEN Append(managers, m.self)
                           ELSE managers
    /\ UNCHANGED <<envVars, snaps, zfsVars, prev, pipeVars, keyfile, bpc, bop,
                   repos0, bprev, entry, environ, exit_status, borg_env,
                   mountstate, now, success_count, fail_count>>

\* a method of one of the instances issues a command
ManagerCommand ==
    /\ Len(calls) < MaxEnvCalls
    /\ \E i \in 1..Len(managers), command \in ManagerCommands,
          code \in PlainExitCodes :
         /\ calls' = calls \o
               <<Call(command, managers[i].repo_path),
                 Cmd("borg", command_env(managers[i].borg_env, command)["BORG_REPO"],
                     code)>>
         /\ managers' = [managers EXCEPT
                           ![i].borg_env = env_after(managers[i].borg_env, command)]
    /\ UNCHANGED <<envVars, snaps, zfsVars, prev, pipeVars, borgVars, entry,
                   environ, exit_status, borg_env, mountstate, now, base_env,
                   success_count, fail_count>>

NextManagers == NewManager \/ ManagerCommand

SpecManagers == InitManagers /\ [][NextManagers]_vars

\* C34: constructing a manager never changes the base environment; every
\* instance keeps the repository path it was built with in its own
\* environment, whatever was built or run since, and every command of an
\* instance runs with that path as BORG_REPO; a construction raises
\* ValueError, and yields no instance, exactly when BORG_PASSPHRASE or
\* BORG_RSH is absent or empty in the base environment.
C34_CredentialBundleIsolation ==
    /\ [](/\ \A i \in 1..Len(managers) :
               managers[i].borg_env["BORG_REPO"] = managers[i].repo_path
          /\ \A p \in 1..Len(calls) :
               calls[p].ev = "cmd" => calls[p].arg = calls[p - 1].arg)
    /\ [][/\ base_env' = base_env
          /\ \A i \in 1..Len(managers) :
               managers'[i].repo_path = managers[i].repo_path
          /\ Len(calls') = Len(calls) + 1 =>
               /\ bres' = ValueError <=> missing_vars(base_env) # {}
               /\ bres' = NoExc <=> missing_vars(base_env) = {}
               /\ bres' = ValueError => managers' = managers
               /\ bres' = NoExc =>
                     /\ Len(managers') = Len(managers) + 1
                     /\ managers'[Len(managers')].repo_path
                          = calls'[Len(calls')].arg]_vars

\* two instances on different repositories built from a base environment
\* that held a BORG_REPO of its own; the first ran a command after the
\* second was built
C34_Witness ==
    /\ Len(managers) = 2
    /\ managers[1].repo_path # managers[2].repo_path
    /\ "BORG_REPO" \in DOMAIN base_env
    /\ Len(calls) = 4
    /\ calls[2].name = "BorgBackupRepoManager"
    /\ calls[4] = Cmd("borg", managers[1].repo_path, 0)

\* C35: services are never left stopped by the backup-all command: when the
\* process has ended and a stop command was issued to the service groups,
\* up_all has been invoked after the last of them.
C35_NeverLeftStopped ==
    (exit_status # -1 /\ Count(calls, "cmd", "docker stop") > 0) =>
        \E u \in Positions(calls, "call", "up_all") :
            \A s \in Positions(calls, "cmd", "docker stop") : s < u

\* C36: whenever the failure handler of backup_all has reported the run's
\* snapshot as left for manual inspection, the snapshot <parent>@<tag>
\* exists in the storage layer.
C36_ReportIsAccurate == reported => RunSnapshot \in snaps

\* C37: whenever backup_all has ended in failure and the snapshot of the run
\* exists because the run's snapshot command created it, the failure
\* handler has reported it as left behind.
C37_NoUnreportedLeftover ==
    (/\ pc = "raised"
     /\ RunSnapshot \in snaps
     /\ \E p \in 1..Len(calls) : calls[p] = Cmd("zfs snapshot", RunSnapshot, 0))
    => reported

\* snapshots with the tag of the call in progress on its target and, for a
\* recursive call, on the descendants of the target
ScopeSnapshots ==
    SnapTargets(filesystems, TargetDataset(zop.dataset_name), zop.tag, zop.recursive)

\* C38: after destroy_snapshot(tag, recursive=True) has returned normally no
\* snapshot with the tag exists on the target or on any descendant; and
\* create_snapshot(tag, recursive=True) raises FileExistsError whenever the
\* target or a descendant held a snapshot with the tag when it was called
\* and its probe answered.
C38_RecursiveScope ==
    /\ (zop.op = "destroy_snapshot" /\ zop.recursive /\ zpc = "return"
          /\ zres = NoExc)
       => ScopeSnapshots \cap snaps = {}
    /\ (zop.op = "create_snapshot" /\ zop.recursive /\ zpc = "return"
          /\ ScopeSnapshots \cap snaps0 # {} /\ PrecheckCode # 2)
       => zres = FileExistsError

----------------------------------------------------------------------------
(* backup_all called again on the same BackupOrchestrator instance *)

\* a caller invokes backup_all a second time on the instance whose first
\* run raised and left its snapshot in place: self.snapshot_tag is the one
\* of __init__ (line 126), the locals of backup_all start afresh (line 136)
BackupAllAgain ==
    /\ pc = "raised"
    /\ RunSnapshot \in snaps
    /\ Count(calls, "call", "stop_all") < MaxRuns
    /\ pc' = "start"
    /\ snapshot_tag' = snapshot_tag
    /\ snapshot_created' = FALSE
    /\ exc' = NoExc
    /\ datasets' = << >>
    /\ idx' = 0
    /\ reported' = FALSE
    /\ UNCHANGED <<envVars, snaps, calls, zfsVars, prev, borgVars, procVars>>

NextRerun == BackupAllAgain \/ Next

SpecRerun == InitRuns /\ [][NextRerun]_vars

\* trace positions of the second run
SecondRun == {p \in 1..Len(calls) : RunOf(p) = 2}

\* the second run has ended; its stop command succeeded and its probe of
\* the snapshot answered
SecondRunEnded ==
    /\ pc = "raised"
    /\ \E p \in SecondRun : calls[p] = Cmd("docker stop", << >>, 0)
    /\ \E p \in SecondRun : calls[p] = Cmd("zfs list", RunSnapshot, 0)

\* C39: a second backup_all on the same instance, after a run that failed
\* with its snapshot left behind, runs under the same tag: it stops the
\* services, raises FileExistsError without issuing a snapshot command,
\* invokes up_all exactly once, performs no enumeration and no repository
\* operation, leaves the snapshot in place and reports no snapshot as left
\* behind.
C39_RerunFailsAlreadyExists ==
    SecondRunEnded =>
        /\ exc = FileExistsError
        /\ \A p \in SecondRun :
              calls[p].name \notin RepoOps \cup {"zfs snapshot", "zfs destroy",
                                                 "get_datasets", "zfs list -r"}
        /\ Cardinality(SecondRun \cap Positions(calls, "call", "up_all")) = 1
        /\ RunSnapshot \in snaps
        /\ ~reported

----------------------------------------------------------------------------
(* MasterOrchestrator.export_all_keys (orchestrator.py, lines 193-264) *)

borg_keys_dir == <<"keys">>

\* lines 231-233: keys_dir / f"{repo_id}.key"
key_export_path(dataset) ==
    borg_keys_dir \o <<"/">> \o Replace(dataset.name, "/", "_") \o <<".key">>

\* mutant: the failure of a volume leaves the loop
export_all_keys_except_reraise(e) == [raised |-> e, fail_count |-> 0]

\* lines 257-261: except Exception logs the failure and counts it
export_all_keys_except(e) == [raised |-> NoExc, fail_count |-> 1]

\* the end of one iteration of the loop (lines 222-261): `e' is what the
\* body raised, NoExc when it ran through to success_count += 1
KeysVolumeDone(e) ==
    LET h == export_all_keys_except(e)
        left == e # NoExc /\ h.raised # NoExc
    IN /\ success_count' = success_count + (IF e = NoExc THEN 1 ELSE 0)
       /\ fail_count' = fail_count + (IF e = NoExc THEN 0 ELSE h.fail_count)
       /\ exc' = IF left THEN h.raised ELSE exc
       /\ idx' = IF ~left /\ idx < Len(datasets) THEN idx + 1 ELSE idx
       /\ pc' = IF left THEN "raised"
                ELSE IF idx < Len(datasets) THEN "keys_export"
                ELSE "returned"

\* lines 197-210: sudo mkdir -p and chown of the keys directory; on any
\* exception the method logs and returns
ExportKeysDir ==
    /\ pc = "keys_dir"
    /\ \E mk \in PlainExitCodes, ch \in PlainExitCodes :
         /\ calls' = calls \o <<Call("export_all_keys", borg_keys_dir),
                                 Cmd("mkdir -p", borg_keys_dir, mk)>>
                           \o (IF mk = 0 THEN <<Cmd("chown dir", borg_keys_dir, ch)>>
                               ELSE << >>)
         /\ pc' = IF mk = 0 /\ ch = 0 THEN "keys_enumerate" ELSE "returned"
    /\ UNCHANGED <<envVars, snaps, zfsVars, prev, snapshot_tag, snapshot_created,
                   exc, datasets, idx, reported, borgVars, procVars>>

\* lines 212-220: datasets = list(self.zfs.get_datasets()), outside any try
ExportKeysEnumerate ==
    /\ pc = "keys_enumerate"
    /\ \E code \in PlainExitCodes :
         LET ds == get_datasets(listing)
         IN /\ calls' = calls \o <<Call("get_datasets", parent_dataset),
                                   Cmd("zfs list -r", parent_dataset, code)>>
            /\ IF code # 0
               THEN /\ exc' = ErrorReturnCode("zfs list -r")
                    /\ pc' = "raised"
                    /\ UNCHANGED <<datasets, idx>>
               ELSE /\ datasets' = ds
                    /\ exc' = exc
                    /\ pc' = IF ds = << >> THEN "returned" ELSE "keys_export"
                    /\ idx' = IF ds = << >> THEN idx ELSE 1
    /\ UNCHANGED <<envVars, snaps, zfsVars, prev, snapshot_tag, snapshot_created,
                   reported, borgVars, procVars>>

\* lines 243-246: the manager of the volume is built and
\* export_recovery_key is entered
ExportKeysVolume ==
    /\ pc = "keys_export"
    /\ bpc = "idle"
    /\ LET m == BorgBackupRepoManager(CurRepo, base_env)
       IN /\ base_env' = m.base
          /\ IF m.raised # NoExc
             THEN /\ calls' = Append(calls, Call("_get_borg_manager_for_dataset",
                                                 datasets[idx].name))
                  /\ KeysVolumeDone(m.raised)
                  /\ UNCHANGED <<managers, borgVars>>
             ELSE /\ calls' = calls \o
                        <<Call("_get_borg_manager_for_dataset", datasets[idx].name),
                          Call("export_recovery_key", key_export_path(datasets[idx]))>>
                  /\ managers' = <<m.self>>
                  /\ bop' = [op |-> "export_recovery_key", repo_path |-> CurRepo,
                             source_path |-> << >>]
                  /\ bpc' = "export_mkdir"
                  /\ bres' = NoExc
                  /\ repos0' = repos
                  /\ keyfile' \in {"absent", "old"}
                  /\ pc' = "keys_exporting"
                  /\ UNCHANGED <<exc, idx, success_count, fail_count, bprev>>
    /\ UNCHANGED <<envVars, snaps, zfsVars, prev, snapshot_tag, snapshot_created,
                   datasets, reported, entry, environ, exit_status, borg_env,
                   mountstate, now>>

\* lines 246-261: export_recovery_key has returned or raised; chown and
\* chmod of the key file, success_count += 1, or the except block
ExportKeysAfter ==
    /\ pc = "keys_exporting"
    /\ bpc = "return"
    /\ bpc' = "idle"
    /\ IF bres # NoExc
       THEN /\ calls' = calls
            /\ KeysVolumeDone(bres)
       ELSE \E ch \in PlainExitCodes, md \in PlainExitCodes :
              /\ calls' = calls
                    \o <<Cmd("chown", key_export_path(datasets[idx]), ch)>>
                    \o (IF ch = 0
                        THEN <<Cmd("chmod", key_export_path(datasets[idx]), md)>>
                        ELSE << >>)
              /\ KeysVolumeDone(IF ch # 0 THEN ErrorReturnCode("chown")
                                ELSE IF md # 0 THEN ErrorReturnCode("chmod")
                                ELSE NoExc)
    /\ UNCHANGED <<envVars, snaps, zfsVars, prev, snapshot_tag, snapshot_created,
                   datasets, reported, keyfile, bop, bres, repos0, bprev, entry,
                   environ, exit_status, borg_env, mountstate, now, base_env,
                   managers>>

\* the credentials of orchestrator.Config (lines 98-103): both set, or the
\* passphrase left empty in the environment file
KeysBaseEnvs ==
    {d \in BaseEnvs : DOMAIN d = {"BORG_PASSPHRASE", "BORG_RSH"}
                        /\ d["BORG_RSH"] # << >>}

InitKeys ==
    /\ filesystems = {parent_dataset} \cup {ChildDataset(k) : k \in 1..MaxVols}
    /\ snaps = {}
    /\ \E kinds \in [1..MaxVols -> {"mounted", "unmounted"}] :
         listing = [k \in 1..MaxVols |-> ListingLine(k, kinds[k])]
    /\ repos \in SUBSET {_get_repo_path([name |-> ChildDataset(k)]) : k \in 1..MaxVols}
    /\ archives = {}
    /\ services = "running"
    /\ calls = << >>
    /\ zpc = "idle"
    /\ zop = NoOp
    /\ zres = NoExc
    /\ snaps0 = {}
    /\ prev = NoPrev
    /\ pc = "keys_dir"
    /\ snapshot_tag = << >>
    /\ snapshot_created = FALSE
    /\ exc = NoExc
    /\ datasets = << >>
    /\ idx = 0
    /\ reported = FALSE
    /\ BorgOff
    /\ entry = "none"
    /\ environ = FullEnviron
    /\ exit_status = -1
    /\ borg_env = DefaultRsh
    /\ mountstate = << >>
    /\ now = DefaultNow
    /\ base_env \in KeysBaseEnvs
    /\ managers = << >>
    /\ success_count = 0
    /\ fail_count = 0

NextKeys ==
    \/ ExportKeysDir
    \/ ExportKeysEnumerate
    \/ ExportKeysVolume
    \/ BorgExportMkdir
    \/ BorgExportCommand
    \/ BorgExportCleanup
    \/ BorgExportVerify
    \/ BorgVerifyCleanup
    \/ ExportKeysAfter

SpecKeys == InitKeys /\ [][NextKeys]_vars

\* volumes the loop is through with
VolumesDone ==
    IF pc \in {"keys_export", "keys_exporting"} THEN idx - 1
    ELSE IF pc = "returned" THEN Len(datasets)
    ELSE 0

\* positions at which the loop took up the volume
TakenUp(dataset) ==
    {p \in Positions(calls, "call", "_get_borg_manager_for_dataset") :
        calls[p].arg = dataset.name}

\* C40: once export_all_keys has enumerated its volumes it never raises; it
\* takes up every volume exactly once, in order, whatever happened to the
\* volumes before; every volume it is through with was counted once, as a
\* success or as a failure, so that at the end success_count + fail_count
\* is the number of volumes; and chown and chmod are issued only on the
\* key file of a volume whose export command and verification succeeded.
C40_EveryVolumeOnce ==
    datasets # << >> =>
        /\ pc # "raised"
        /\ exc = NoExc
        /\ success_count + fail_count = VolumesDone
        /\ \A k \in 1..Len(datasets) :
              /\ Cardinality(TakenUp(datasets[k]))
                    = (IF k <= VolumesDone \/ (k = idx /\ pc = "keys_exporting")
                       THEN 1 ELSE 0)
              /\ \A p \in TakenUp(datasets[k]) : \A j \in 1..(k - 1) :
                    \E q \in TakenUp(datasets[j]) : q < p
        /\ \A p \in 1..Len(calls) :
              calls[p].name \in {"chown", "chmod"} =>
                 \E k \in 1..Len(datasets) :
                    /\ calls[p].arg = key_export_path(datasets[k])
                    /\ \E q \in 1..(p - 1) :
                          calls[q] = Cmd("borg key export",
                                         _get_repo_path(datasets[k]), 0)
                    /\ \E q \in 1..(p - 1) :
                          calls[q] = Cmd("borg list", _get_repo_path(datasets[k]), 0)
        /\ success_count
              = Cardinality({p \in 1..Len(calls) : calls[p].name = "chmod"
                                                    /\ calls[p].code = 0})

\* three volumes: the verification of the first failed, the export of the
\* second succeeded and its file was secured, the third failed too
C40_Witness ==
    /\ pc = "returned"
    /\ Len(datasets) = 3
    /\ success_count = 1
    /\ fail_count = 2
    /\ \E p \in 1..Len(calls) :
          calls[p] = Cmd("borg list", _get_repo_path(datasets[1]), 2)
    /\ \E p \in 1..Len(calls) :
          calls[p] = Cmd("chmod", key_export_path(datasets[2]), 0)

====
